---- MODULE Spec2Model ----
(***************************************************************************)
(* Model of the retrieval-augmented-generation core of the dashboard:      *)
(* the vector store client (addDocument, searchDocuments,                  *)
(* bulkAddDocuments, deleteDocument), the match_documents SQL function it  *)
(* calls, and the agents built on it (ragAgent, ragAgentWithSources,       *)
(* hybridSearch, aiAgentWithSystemPrompt): specification Spec.             *)
(* The provider clients (createEmbedding, createChatCompletion) and the    *)
(* prompt templates (promptAgent, createCustomPrompt): SpecClient.         *)
(* streamChatCompletion and aiAgentStream, chunk by chunk: SpecStream.     *)
(* The Dashboard (agent selection, handleSendMessage, handleRAGAgent):     *)
(* SpecDashboard.                                                          *)
(*                                                                         *)
(* Numbers: similarities and thresholds are in hundredths (0.7 is 70).     *)
(* Text: a string the code assembles from pieces is a sequence of tokens,  *)
(* one token per piece, so that "contains" and "in this order" can be      *)
(* stated; a string the code passes on unchanged is one token.             *)
(***************************************************************************)
EXTENDS Integers, Sequences, FiniteSets, TLC

VARIABLES
  docs,      \* the rows of the documents table
  nextId,    \* the next identifier the store generates (ids are never reused)
  last,      \* the most recent operation: its arguments and, once it has
             \* returned, its result
  calls,     \* the external calls issued by the last (or the running) operation
  bulk,      \* the bulkAddDocuments call in flight, if any
  promptTemplates,  \* the registry of prompt templates, by name
  stream,    \* the streamChatCompletion call in flight, if any, and the
             \* onChunk invocations it has made
  selectedAgent,    \* Dashboard state: the id of the selected agent
  sessions,  \* Dashboard state: the messages of each agent's session
  isLoading, \* Dashboard state: the loading flag
  send,      \* the handleSendMessage calls in flight: what each closure holds
  tables,    \* the rows of the workflow_logs, notifications and emails tables
  flow       \* the workflow registered with scheduleWorkflow, the timer, and
             \* the runs of the workflow function started so far

\* the state of the prompt registry and of the streaming client
clientVars == <<promptTemplates, stream>>
\* the state of the Dashboard component
dashVars == <<selectedAgent, sessions, isLoading, send>>

\* the state of the workflow layer
flowVars == <<tables, flow>>

vars == <<docs, nextId, last, calls, bulk, promptTemplates, stream,
          selectedAgent, sessions, isLoading, send, tables, flow>>

----------------------------------------------------------------------------
(* Bounds of the model *)

\* identifiers the store hands out in one behaviour
MaxDocs == 2
\* length of the longest bulkAddDocuments input
MaxBatch == 2

----------------------------------------------------------------------------
(* Values *)

\* an optional numeric option that the caller left out
Undefined == -1

\* document and query texts
Contents == {"a", "b", "c"}

\* JSON values held under a metadata key: a primitive, or an array (an object
\* with its own identity once parsed or constructed)
Prim(v) == [kind |-> "prim", v |-> <<v>>]
Arr(s) == [kind |-> "array", v |-> s]

\* a Record<string, any>, or the absence of one (undefined / null)
Map(kv) == [defined |-> TRUE, kv |-> kv]
NoMap == [defined |-> FALSE, kv |-> {}]

HasKey(m, k) == \E p \in m.kv : p[1] = k
Get(m, k) == (CHOOSE p \in m.kv : p[1] = k)[2]

TagX == Map({<<"tag", Prim("x")>>})
TagArr == Map({<<"tag", Arr(<<"x">>)>>})
TagXLangEn == Map({<<"tag", Prim("x")>>, <<"lang", Prim("en")>>})

\* (content, metadata) arguments of addDocument and items of bulkAddDocuments
Doc(content, metadata) == [content |-> content, metadata |-> metadata]
InputDocuments == {Doc("a", NoMap), Doc("b", TagX), Doc("c", TagArr)}
\* filter arguments of hybridSearch
FilterArgs == {NoMap, Map({}), TagX, TagArr, TagXLangEn}

\* messages carried by a provider or store error (may be empty)
ErrorMessages == {"unavailable"}

Min(a, b) == IF a < b THEN a ELSE b

----------------------------------------------------------------------------
(* The embedding provider and the similarity function of the store *)

\* The provider's embedding of a text: deterministic, unit length after
\* division by 5 (text-embedding-3-small returns normalised vectors).
Embed(text) ==
  CASE text = "a" -> <<5, 0>>
    [] text = "b" -> <<4, 3>>
    [] text = "c" -> <<3, 4>>
    [] OTHER -> <<0, 5>>

Dot(u, v) == u[1] * v[1] + u[2] * v[2]
ISqrt(n) == CHOOSE r \in 0..n : r * r <= n /\ (r + 1) * (r + 1) > n
Norm(u) == ISqrt(Dot(u, u))

\* pgvector's <=> operator: the cosine distance, in hundredths
CosineDistance(u, v) == 100 - (100 * Dot(u, v)) \div (Norm(u) * Norm(v))

\* the WHERE clause of match_documents
\* (faulty variant: >= in place of >)
MatchesThresholdGE(similarity, match_threshold) == similarity >= match_threshold
MatchesThreshold(similarity, match_threshold) == similarity > match_threshold

\* the SELECT list of match_documents, for one row of the table
\* (faulty variant: the distance is returned as the similarity)
MatchRowDistance(d, query_embedding) ==
  [id |-> d.id, content |-> d.content, metadata |-> d.metadata,
   similarity |-> CosineDistance(d.embedding, query_embedding)]
MatchRow(d, query_embedding) ==
  [id |-> d.id, content |-> d.content, metadata |-> d.metadata,
   similarity |-> 100 - CosineDistance(d.embedding, query_embedding)]

Range(s) == {s[i] : i \in 1..Len(s)}

\* match_documents(query_embedding, match_threshold, match_count): the set of
\* row sequences the SQL function may return.  ORDER BY distance leaves the
\* order of rows at the same distance to the store, and LIMIT then keeps any
\* of them: every such outcome is in the set.
match_documents(table, query_embedding, match_threshold, match_count) ==
  LET rows == {MatchRow(d, query_embedding) : d \in table}
      kept == {r \in rows : MatchesThreshold(r.similarity, match_threshold)}
      n == Min(match_count, Cardinality(kept))
  IN  {s \in [1..n -> kept] :
         /\ \A i, j \in 1..n : i < j => s[i] # s[j] /\ s[i].similarity >= s[j].similarity
         /\ \A r \in kept \ Range(s) : \A i \in 1..n : s[i].similarity >= r.similarity}

\* JavaScript's `x || d` for an optional number: undefined and 0 are falsy
OrDefault(x, d) == IF x = Undefined \/ x = 0 THEN d ELSE x

\* JavaScript's `m || {}` for an optional object: every object is truthy
OrEmptyMap(m) == IF m.defined THEN m ELSE Map({})

SIMILARITY_THRESHOLD == 70
MAX_RESULTS == 5

----------------------------------------------------------------------------
(* External calls, as the operations issue them *)

EmbedCall(text) == [svc |-> "embeddings.create", input |-> text]
RpcCall(qe, t, m) ==
  [svc |-> "rpc", fn |-> "match_documents", query_embedding |-> qe,
   match_threshold |-> t, match_count |-> m]
InsertCall(records) == [svc |-> "insert", table |-> "documents", records |-> records]
DeleteCall(id) == [svc |-> "delete", table |-> "documents", id |-> id]
ChatCall(messages) == [svc |-> "chat.completions.create", messages |-> messages]

CallsTo(cs, svc) == {i \in 1..Len(cs) : cs[i].svc = svc}

\* createEmbedding: the vector, or a thrown Error carrying the provider's message
EmbeddingError(msg) == "Failed to create embedding: " \o msg

\* `error.message || fallback`
MessageOr(msg, fallback) == IF msg = "" THEN fallback ELSE msg

----------------------------------------------------------------------------
(* searchDocuments *)

Options(threshold, maxResults) == [threshold |-> threshold, maxResults |-> maxResults]

\* the rows of the RPC, mapped to SearchResult
ToSearchResults(data) ==
  [i \in 1..Len(data) |->
     [id |-> data[i].id, content |-> data[i].content,
      similarity |-> data[i].similarity, metadata |-> data[i].metadata]]

\* Every way a searchDocuments(query, options) call can end on the table:
\* the result it resolves to and the external calls it issued.
\* (faulty variant: a failed embedding call is replaced by a zero vector and
\* the search goes on)
searchDocumentsZeroVector(table, query, options) ==
  LET qe == Embed(query)
      t == OrDefault(options.threshold, SIMILARITY_THRESHOLD)
      m == OrDefault(options.maxResults, MAX_RESULTS)
  IN  {[success |-> TRUE, data |-> <<>>, error |-> "",
        calls |-> <<EmbedCall(query), RpcCall(<<0, 0>>, t, m)>>]}
      \cup
      {[success |-> TRUE, data |-> ToSearchResults(rows), error |-> "",
        calls |-> <<EmbedCall(query), RpcCall(qe, t, m)>>] :
          rows \in match_documents(table, qe, t, m)}
searchDocuments(table, query, options) ==
  LET qe == Embed(query)
      t == OrDefault(options.threshold, SIMILARITY_THRESHOLD)
      m == OrDefault(options.maxResults, MAX_RESULTS)
      embedFails ==
        {[success |-> FALSE, data |-> <<>>,
          error |-> MessageOr(EmbeddingError(msg), "Failed to search documents"),
          calls |-> <<EmbedCall(query)>>] : msg \in ErrorMessages}
      rpcFails ==
        {[success |-> FALSE, data |-> <<>>,
          error |-> MessageOr(msg, "Failed to search documents"),
          calls |-> <<EmbedCall(query), RpcCall(qe, t, m)>>] : msg \in ErrorMessages}
      succeeds ==
        {[success |-> TRUE, data |-> ToSearchResults(rows), error |-> "",
          calls |-> <<EmbedCall(query), RpcCall(qe, t, m)>>] :
            rows \in match_documents(table, qe, t, m)}
  IN  embedFails \cup rpcFails \cup succeeds

----------------------------------------------------------------------------
(* State.  An operation runs from call to return without another operation
   of this client in between (each caller awaits it); only the embedding
   calls of one bulkAddDocuments call are concurrent, and settle in any
   order. *)

Idle == [pc |-> "idle"]

\* a prompt template; the template text is a sequence of tokens, a
\* placeholder `{variable}` being one token
PromptTemplate(name, template, variables) ==
  [name |-> name, template |-> template, variables |-> variables]

\* `{variable}`
Placeholder(variable) == "{" \o variable \o "}"

\* the registry as the module defines it
BuiltInTemplates ==
  [summarize |->
     PromptTemplate("Summarization",
       <<"Summarize the following text in a concise manner:\n\n", Placeholder("text"),
         "\n\nSummary:">>,
       <<"text">>),
   analyze |->
     PromptTemplate("Analysis",
       <<"Analyze the following content and provide key insights:\n\n",
         Placeholder("content"), "\n\nAnalysis:">>,
       <<"content">>),
   translate |->
     PromptTemplate("Translation",
       <<"Translate the following text to ", Placeholder("language"), ":\n\n",
         Placeholder("text"), "\n\nTranslation:">>,
       <<"text", "language">>),
   codeReview |->
     PromptTemplate("Code Review",
       <<"Review the following code and provide feedback on:\n1. Code quality\n2. Best practices\n3. Potential improvements\n\nCode:\n",
         Placeholder("code"), "\n\nReview:">>,
       <<"code">>),
   brainstorm |->
     PromptTemplate("Brainstorming",
       <<"Generate creative ideas for the following topic:\n\n", Placeholder("topic"),
         "\n\nProvide at least 5 innovative ideas.">>,
       <<"topic">>),
   explain |->
     PromptTemplate("Explanation",
       <<"Explain the following concept in simple terms that a beginner can understand:\n\n",
         Placeholder("concept"), "\n\nExplanation:">>,
       <<"concept">>)]

Init ==
  /\ docs = {}
  /\ nextId = 1
  /\ last = [op |-> "none", success |-> TRUE]
  /\ calls = <<>>
  /\ bulk = Idle
  /\ promptTemplates = BuiltInTemplates
  /\ stream = Idle
  /\ selectedAgent = "ai"
  /\ sessions = [a \in {} |-> <<>>]      \* useState<Record<string, ChatSession>>({})
  /\ isLoading = FALSE
  /\ send = {}
  /\ tables = [t \in {"workflow_logs", "notifications", "emails"} |-> <<>>]
  /\ flow = [timer |-> FALSE, actions |-> <<>>, runs |-> <<>>]   \* nothing scheduled

\* threshold and maxResults arguments of searchDocuments
ThresholdArgs == {Undefined, 0, 50, 60}
MaxResultsArgs == {Undefined, 1, 2}

Ids(results) == {results[i].id : i \in 1..Len(results)}

----------------------------------------------------------------------------
(* addDocument *)

\* the record addDocument hands to the store (created_at left out)
NewDocument(content, embedding, metadata) ==
  [content |-> content, embedding |-> embedding, metadata |-> OrEmptyMap(metadata)]

\* the row the store makes of an inserted record: it generates the id
StoredRow(record, id) ==
  [id |-> id, content |-> record.content, embedding |-> record.embedding,
   metadata |-> record.metadata]

\* the column `embedding vector(1536)`: the length the store accepts, at the
\* scale of the model's vectors
EmbeddingDimension == 2

\* what the provider answers to embeddings.create
EmbeddingOk(embedding) == [ok |-> TRUE, embedding |-> embedding, message |-> ""]
EmbeddingFailed(msg) == [ok |-> FALSE, embedding |-> <<>>, message |-> msg]
\* a provider that keeps to the model's dimension
ConformingResponses(text) ==
  {EmbeddingOk(Embed(text))} \cup {EmbeddingFailed(msg) : msg \in ErrorMessages}
\* any provider: it may also answer with a vector of another length
ProviderResponses(text) == ConformingResponses(text) \cup {EmbeddingOk(<<5>>)}

\* createEmbedding(text), the provider answering with response: it returns
\* response.data[0].embedding as it is, and throws when the call failed
createEmbedding(text, response) ==
  IF response.ok
  THEN [threw |-> FALSE, value |-> response.embedding, error |-> ""]
  ELSE [threw |-> TRUE, value |-> <<>>, error |-> EmbeddingError(response.message)]

\* addDocument(content, metadata): every way it can end, with the table and
\* the id counter it leaves
addDocumentCall(content, metadata, responses) ==
  UNION {
    LET e == createEmbedding(content, response)
        document == NewDocument(content, e.value, metadata)
        both == <<EmbedCall(content), InsertCall(<<document>>)>>
        out(success, data, error, issued, table, id) ==
          [success |-> success, data |-> data, error |-> error, calls |-> issued,
           docs |-> table, nextId |-> id]
    IN
    IF e.threw                                 \* createEmbedding throws
    THEN {out(FALSE, <<>>, MessageOr(e.error, "Failed to add document"),
              <<EmbedCall(content)>>, docs, nextId)}
    ELSE {out(FALSE, <<>>, MessageOr(msg, "Failed to add document"), both, docs, nextId) :
            msg \in ErrorMessages}           \* the insert returns an error
         \cup
         (IF Len(e.value) = EmbeddingDimension /\ nextId <= MaxDocs
          THEN {out(TRUE, StoredRow(document, nextId), "", both,
                    docs \cup {StoredRow(document, nextId)}, nextId + 1)}
          ELSE {})                             \* the insert returns the new row
    : response \in responses}

addDocument ==
  /\ bulk.pc = "idle"
  /\ \E in \in InputDocuments :
       \E r \in addDocumentCall(in.content, in.metadata, ConformingResponses(in.content)) :
         /\ calls' = r.calls
         /\ docs' = r.docs
         /\ nextId' = r.nextId
         /\ last' = [op |-> "addDocument", content |-> in.content,
                     metadata |-> in.metadata, success |-> r.success,
                     data |-> r.data, error |-> r.error, before |-> docs]
  /\ UNCHANGED bulk
  /\ UNCHANGED <<clientVars, dashVars, flowVars>>

----------------------------------------------------------------------------
(* searchDocuments, as an operation of its own *)

search ==
  /\ bulk.pc = "idle"
  /\ \E query \in Contents, threshold \in ThresholdArgs, maxResults \in MaxResultsArgs :
       \E r \in searchDocuments(docs, query, Options(threshold, maxResults)) :
         /\ calls' = r.calls
         /\ last' =
              [op |-> "searchDocuments", query |-> query,
               options |-> Options(threshold, maxResults),
               success |-> r.success, data |-> r.data, error |-> r.error,
               \* history: the id of the row a directly preceding successful
               \* addDocument(query) created, else 0
               afterAdd |-> IF /\ last.op = "addDocument" /\ last.success
                               /\ last.content = query
                            THEN last.data.id ELSE 0,
               \* history: the id of the row a directly preceding successful
               \* deleteDocument removed, if its content was the query, else 0
               afterDelete |-> IF /\ last.op = "deleteDocument" /\ last.success
                                  /\ \E d \in last.before :
                                       d.id = last.documentId /\ d.content = query
                               THEN last.documentId ELSE 0]
  /\ UNCHANGED <<docs, nextId, bulk>>
  /\ UNCHANGED <<clientVars, dashVars, flowVars>>

----------------------------------------------------------------------------
(* deleteDocument *)

\* DELETE FROM documents WHERE id = documentId
\* (faulty variant: every row with the content of that row is removed)
DeleteRowsByContent(table, documentId) ==
  {d \in table : \A e \in table : e.id = documentId => d.content # e.content}
DeleteRows(table, documentId) == {d \in table : d.id # documentId}

deleteDocument ==
  /\ bulk.pc = "idle"
  /\ \E documentId \in 1..MaxDocs :
       LET done(success, error) ==
             [op |-> "deleteDocument", documentId |-> documentId,
              success |-> success, error |-> error, before |-> docs]
       IN
       /\ calls' = <<DeleteCall(documentId)>>
       /\ \/ \E msg \in ErrorMessages :
               /\ last' = done(FALSE, MessageOr(msg, "Failed to delete document"))
               /\ UNCHANGED docs
          \/ /\ docs' = DeleteRows(docs, documentId)
             /\ last' = done(TRUE, "")
  /\ UNCHANGED <<nextId, bulk>>
  /\ UNCHANGED <<clientVars, dashVars, flowVars>>

----------------------------------------------------------------------------
(* bulkAddDocuments *)

RECURSIVE SeqsUpTo(_, _)
\* the sequences over S of length 1..n
SeqsUpTo(S, n) ==
  IF n = 0 THEN {}
  ELSE LET shorter == SeqsUpTo(S, n - 1)
       IN  {<<x>> : x \in S} \cup shorter \cup {Append(s, x) : s \in shorter, x \in S}

\* a slot of the array Promise.all fills: an embedding call not yet settled
Pending == [settled |-> FALSE]
Fulfilled(record) == [settled |-> TRUE, record |-> record]

\* Promise.all over the mapped documents: the array it resolves to holds the
\* value of the i-th promise at index i, whatever the order of settlement
\* (faulty variant: values collected in the order of settlement)
PromiseAllInSettlementOrder(slots, order) ==
  [k \in 1..Len(order) |-> slots[order[k]].record]
PromiseAll(slots, order) ==
  [i \in 1..Len(slots) |-> slots[i].record]

\* what the catch block of bulkAddDocuments sends to the store once an
\* embedding call has rejected: nothing
\* (faulty variant: the records already embedded are inserted)
InsertOnRejectFulfilled(slots) ==
  LET RECURSIVE pick(_)
      pick(i) == IF i > Len(slots) THEN <<>>
                 ELSE IF slots[i].settled THEN <<slots[i].record>> \o pick(i + 1)
                 ELSE pick(i + 1)
  IN  pick(1)
InsertOnReject(slots) == <<>>

\* the rows a batched insert creates: ids in the order of the records
StoredRows(records, firstId) ==
  {StoredRow(records[i], firstId + i - 1) : i \in 1..Len(records)}

\* the result of the call, with the order in which the embedding calls settled
\* (rejected: the index of the embedding call that rejected, 0 if none did)
BulkDone(success, count, error, order, rejected) ==
  [op |-> "bulkAddDocuments", returned |-> TRUE, documents |-> bulk.documents,
   success |-> success, count |-> count, error |-> error, order |-> order,
   rejected |-> rejected, before |-> docs]

\* the call: documents.map starts every createEmbedding call, in input order
bulkAddDocuments ==
  /\ bulk.pc = "idle"
  /\ \E documents \in SeqsUpTo(InputDocuments, MaxBatch) :
       /\ nextId + Len(documents) - 1 <= MaxDocs
       /\ bulk' = [pc |-> "embedding", documents |-> documents,
                   slots |-> [i \in 1..Len(documents) |-> Pending],
                   order |-> <<>>]
       /\ calls' = [i \in 1..Len(documents) |-> EmbedCall(documents[i].content)]
       /\ last' = [op |-> "bulkAddDocuments", returned |-> FALSE, success |-> FALSE,
                   documents |-> documents, before |-> docs]
  /\ UNCHANGED <<docs, nextId>>
  /\ UNCHANGED <<clientVars, dashVars, flowVars>>

\* one of the pending embedding calls resolves
embeddingResolves ==
  /\ bulk.pc = "embedding"
  /\ \E i \in 1..Len(bulk.slots) :
       /\ ~bulk.slots[i].settled
       /\ LET doc == bulk.documents[i]
              slots == [bulk.slots EXCEPT ![i] =
                          Fulfilled(NewDocument(doc.content, Embed(doc.content), doc.metadata))]
          IN  bulk' = [bulk EXCEPT !.slots = slots, !.order = Append(@, i),
                         !.pc = IF \A j \in 1..Len(slots) : slots[j].settled
                                THEN "insert" ELSE "embedding"]
  /\ UNCHANGED <<docs, nextId, last, calls>>
  /\ UNCHANGED <<clientVars, dashVars, flowVars>>

\* one of the pending embedding calls rejects: Promise.all rejects, the catch
\* block returns the failure (the calls still pending settle unobserved)
embeddingRejects ==
  /\ bulk.pc = "embedding"
  /\ \E i \in 1..Len(bulk.slots), msg \in ErrorMessages :
       /\ ~bulk.slots[i].settled
       /\ LET records == InsertOnReject(bulk.slots)
          IN  /\ docs' = docs \cup StoredRows(records, nextId)
              /\ nextId' = nextId + Len(records)
              /\ calls' = IF records = <<>> THEN calls
                          ELSE Append(calls, InsertCall(records))
       /\ last' = BulkDone(FALSE, 0, MessageOr(EmbeddingError(msg), "Failed to add documents"),
                           bulk.order, i)
       /\ bulk' = Idle
  /\ UNCHANGED <<clientVars, dashVars, flowVars>>

\* Promise.all has resolved: the single batched insert
bulkInsert ==
  /\ bulk.pc = "insert"
  /\ LET records == PromiseAll(bulk.slots, bulk.order)
     IN  /\ calls' = Append(calls, InsertCall(records))
         /\ \/ \E msg \in ErrorMessages :
                 /\ last' = BulkDone(FALSE, 0, MessageOr(msg, "Failed to add documents"),
                                     bulk.order, 0)
                 /\ UNCHANGED <<docs, nextId>>
            \/ /\ docs' = docs \cup StoredRows(records, nextId)
               /\ nextId' = nextId + Len(records)
               /\ last' = BulkDone(TRUE, Len(records), "", bulk.order, 0)
  /\ bulk' = Idle
  /\ UNCHANGED <<clientVars, dashVars, flowVars>>

----------------------------------------------------------------------------
(* The Generation Client and aiAgentWithSystemPrompt *)

\* completion texts the provider may return (message.content may be empty)
ChatTexts == {"", "It is 42."}

Message(role, content) == [role |-> role, content |-> content]

\* what the provider answers to chat.completions.create: a completion, or
\* an error with its message
ChatOk(text) == [ok |-> TRUE, content |-> text, message |-> ""]
ChatFailed(msg) == [ok |-> FALSE, content |-> "", message |-> msg]
ChatResponses(errors) ==
  {ChatOk(text) : text \in ChatTexts} \cup {ChatFailed(msg) : msg \in errors}

\* the object createChatCompletion returns: the try block returns
\* {success: true, data, usage}, the catch block {success: false, error};
\* keys are the keys the object has, a key it lacks reads as ""
\* (faulty variant: the error message without its fallback)
ChatResultNoFallback(response) ==
  IF response.ok
  THEN [success |-> TRUE, data |-> response.content, error |-> "",
        keys |-> {"success", "data", "usage"}]
  ELSE [success |-> FALSE, data |-> "", error |-> response.message,
        keys |-> {"success", "error"}]
ChatResult(response) ==
  IF response.ok
  THEN [success |-> TRUE, data |-> response.content, error |-> "",
        keys |-> {"success", "data", "usage"}]
  ELSE [success |-> FALSE, data |-> "",
        error |-> MessageOr(response.message, "Failed to generate response"),
        keys |-> {"success", "error"}]

\* createChatCompletion: {success: true, data} or {success: false, error}
createChatCompletion(messages) ==
  {ChatResult(response) : response \in ChatResponses(ErrorMessages)}

\* `s || fallback` for strings: the empty string is falsy
TextOr(s, fallback) == IF s = "" THEN fallback ELSE s

\* aiAgentWithSystemPrompt(systemPrompt, userInput): every way it can end
\* (faulty variant: a failed generation is answered with the fallback text)
aiAgentWithSystemPromptNoThrow(systemPrompt, userInput) ==
  LET messages == <<Message("system", systemPrompt), Message("user", <<userInput>>)>>
  IN  {[threw |-> FALSE,
        value |-> TextOr(response.data, "No response generated"),
        response |-> response,
        calls |-> <<ChatCall(messages)>>] : response \in createChatCompletion(messages)}
aiAgentWithSystemPrompt(systemPrompt, userInput) ==
  LET messages == <<Message("system", systemPrompt), Message("user", <<userInput>>)>>
  IN  {[threw |-> ~response.success,
        value |-> IF response.success
                  THEN TextOr(response.data, "No response generated")
                  ELSE TextOr(response.error, "Failed to get response"),
        response |-> response,
        calls |-> <<ChatCall(messages)>>] : response \in createChatCompletion(messages)}

----------------------------------------------------------------------------
(* ragAgent and ragAgentWithSources *)

NoInformation ==
  "I couldn't find any relevant information in the knowledge base. Please try rephrasing your question or add more context."
NoInformationWithSources ==
  "I couldn't find any relevant information in the knowledge base."

RagPromptHead ==
  "You are a helpful assistant with access to a knowledge base. Answer the user's question based on the following relevant documents. If the documents don't contain enough information, say so clearly.\n\nRelevant Documents:\n"
RagPromptTail ==
  "\n\nInstructions:\n- Base your answer primarily on the provided documents\n- If the documents don't fully answer the question, acknowledge the limitations\n- Cite which document(s) you're referencing when appropriate\n- Be concise but thorough"
SourcesPromptHead ==
  "You are a helpful assistant with access to a knowledge base. Answer the user's question based on the following relevant documents.\n\nRelevant Documents:\n"
SourcesPromptTail ==
  "\n\nProvide a clear and concise answer based on the documents provided."

\* `[Document ${idx + 1}]`, idx being the 0-based index of Array.map
\* (faulty variant: numbered from the 0-based index itself)
HeadingFromIndex(idx) == "[Document " \o ToString(idx) \o "]"
Heading(idx) == "[Document " \o ToString(idx + 1) \o "]"

\* results.map((doc, idx) => `[Document ${idx + 1}]\n${doc.content}`).join('\n\n')
RECURSIVE JoinBlocks(_, _)
JoinBlocks(results, i) ==
  IF i > Len(results) THEN <<>>
  ELSE (IF i > 1 THEN <<"\n\n">> ELSE <<>>)
       \o <<Heading(i - 1), "\n", results[i].content>>
       \o JoinBlocks(results, i + 1)
Context(results) == JoinBlocks(results, 1)

\* the branch `results.length === 0`
\* (faulty variant: the branch is never taken)
NoResultsNever(results) == FALSE
NoResults(results) == Len(results) = 0

\* the generation step was not reached
NoGeneration == [success |-> FALSE, data |-> "", error |-> "", keys |-> {}]

\* The flow the two agents share: search with threshold 0.7 and maxResults 3,
\* then the fixed response, or one generation call on the assembled prompt.
RagFlow(query, head, tail, none) ==
  UNION {
    IF ~(r.success)
    THEN {[threw |-> TRUE, search |-> r, calls |-> r.calls,
           value |-> TextOr(r.error, "Failed to retrieve relevant documents"),
           generated |-> FALSE, generation |-> NoGeneration]}
    ELSE IF NoResults(r.data)
    THEN {[threw |-> FALSE, search |-> r, calls |-> r.calls, value |-> none,
           generated |-> FALSE, generation |-> NoGeneration]}
    ELSE {[threw |-> g.threw, search |-> r, calls |-> r.calls \o g.calls,
           value |-> g.value, generated |-> TRUE, generation |-> g.response] :
            g \in aiAgentWithSystemPrompt(<<head>> \o Context(r.data) \o <<tail>>, query)}
    : r \in searchDocuments(docs, query, Options(70, 3))}

ragAgent ==
  /\ bulk.pc = "idle"
  /\ \E query \in Contents :
       \E f \in RagFlow(query, RagPromptHead, RagPromptTail, NoInformation) :
         /\ calls' = f.calls
         /\ last' = [op |-> "ragAgent", query |-> query, success |-> ~f.threw,
                     threw |-> f.threw, value |-> f.value, search |-> f.search,
                     generated |-> f.generated, generation |-> f.generation]
  /\ UNCHANGED <<docs, nextId, bulk>>
  /\ UNCHANGED <<clientVars, dashVars, flowVars>>

ragAgentWithSources ==
  /\ bulk.pc = "idle"
  /\ \E query \in Contents :
       \E f \in RagFlow(query, SourcesPromptHead, SourcesPromptTail,
                        NoInformationWithSources) :
         /\ calls' = f.calls
         /\ last' = [op |-> "ragAgentWithSources", query |-> query,
                     success |-> ~f.threw, threw |-> f.threw,
                     \* the error message when thrown, else the answer
                     value |-> f.value,
                     sources |-> IF f.threw THEN <<>> ELSE f.search.data,
                     search |-> f.search,
                     generated |-> f.generated, generation |-> f.generation]
  /\ UNCHANGED <<docs, nextId, bulk>>
  /\ UNCHANGED <<clientVars, dashVars, flowVars>>

----------------------------------------------------------------------------
(* hybridSearch *)

\* `a === b`, a read from the metadata of a search result and b from the
\* caller's filter map: primitives compare by value; an array or object is
\* equal only to itself, and a value parsed from the store's response is never
\* the object the caller holds
StrictEquals(a, b) == a.kind = "prim" /\ b.kind = "prim" /\ a.v = b.v

\* Object.entries(filters).every(([key, value]) => doc.metadata[key] === value)
\* (faulty variant: some in place of every)
MatchesSomeFilter(metadata, filters) ==
  \E p \in filters.kv : HasKey(metadata, p[1]) /\ StrictEquals(Get(metadata, p[1]), p[2])
MatchesFilters(metadata, filters) ==
  \A p \in filters.kv : HasKey(metadata, p[1]) /\ StrictEquals(Get(metadata, p[1]), p[2])

\* the callback of results.filter
KeepResult(doc, filters) ==
  IF ~doc.metadata.defined THEN FALSE ELSE MatchesFilters(doc.metadata, filters)

RECURSIVE Filter(_, _, _)
Filter(results, filters, i) ==
  IF i > Len(results) THEN <<>>
  ELSE (IF KeepResult(results[i], filters) THEN <<results[i]>> ELSE <<>>)
       \o Filter(results, filters, i + 1)

hybridSearch ==
  /\ bulk.pc = "idle"
  /\ \E query \in Contents, filters \in FilterArgs :
       \E r \in searchDocuments(docs, query, Options(60, 10)) :
         /\ calls' = r.calls
         /\ last' = [op |-> "hybridSearch", query |-> query, filters |-> filters,
                     search |-> r,
                     results |-> IF ~r.success THEN <<>>
                                 ELSE IF filters.defined THEN Filter(r.data, filters, 1)
                                 ELSE r.data]
  /\ UNCHANGED <<docs, nextId, bulk>>
  /\ UNCHANGED <<clientVars, dashVars, flowVars>>

----------------------------------------------------------------------------

Next ==
  \/ addDocument
  \/ search
  \/ deleteDocument
  \/ bulkAddDocuments
  \/ embeddingResolves
  \/ embeddingRejects
  \/ bulkInsert
  \/ ragAgent
  \/ ragAgentWithSources
  \/ hybridSearch

Spec == Init /\ [][Next]_vars

----------------------------------------------------------------------------
(* Text typed into the chat: a sequence of characters *)

AddCommand == <<"a", "d", "d", ":">>

\* the letters, for toLowerCase, [A-Z] and \w
Letters ==
  [upper |-> <<"A", "B", "C", "D", "E", "F", "G", "H", "I", "J", "K", "L", "M",
               "N", "O", "P", "Q", "R", "S", "T", "U", "V", "W", "X", "Y", "Z">>,
   lower |-> <<"a", "b", "c", "d", "e", "f", "g", "h", "i", "j", "k", "l", "m",
               "n", "o", "p", "q", "r", "s", "t", "u", "v", "w", "x", "y", "z">>]

\* String.prototype.toLowerCase
LowerChar(c) ==
  IF \E i \in 1..26 : Letters.upper[i] = c
  THEN Letters.lower[CHOOSE i \in 1..26 : Letters.upper[i] = c]
  ELSE c
ToLowerCase(s) == [i \in 1..Len(s) |-> LowerChar(s[i])]

StartsWith(s, prefix) ==
  Len(s) >= Len(prefix) /\ SubSeq(s, 1, Len(prefix)) = prefix

\* s.substring(start), start counted from 0
Substring(s, start) == SubSeq(s, start + 1, Len(s))

RECURSIVE TrimStart(_)
TrimStart(s) == IF s # <<>> /\ Head(s) = " " THEN TrimStart(Tail(s)) ELSE s
RECURSIVE TrimEnd(_)
TrimEnd(s) ==
  IF s # <<>> /\ s[Len(s)] = " " THEN TrimEnd(SubSeq(s, 1, Len(s) - 1)) ELSE s
\* String.prototype.trim
Trim(s) == TrimEnd(TrimStart(s))

RECURSIVE Str(_)
\* the characters as one string
Str(s) == IF s = <<>> THEN "" ELSE Head(s) \o Str(Tail(s))

----------------------------------------------------------------------------
(* aiAgent, addKnowledgeDocument and the Dashboard's handleRAGAgent *)

AiSystemPrompt ==
  "You are a helpful AI assistant. Provide clear, concise, and accurate responses."

\* aiAgent(input): every way it can end
aiAgent(input) ==
  LET messages == <<Message("system", <<AiSystemPrompt>>), Message("user", <<input>>)>>
  IN  {[threw |-> ~response.success,
        value |-> IF response.success
                  THEN TextOr(response.data, "No response generated")
                  ELSE TextOr(response.error, "Failed to get response"),
        calls |-> <<ChatCall(messages)>>] : response \in createChatCompletion(messages)}

\* addKnowledgeDocument(content): addDocument without metadata; a failure is
\* thrown and caught again, and returned as {success: false, error}
addKnowledgeDocument(content) ==
  {[success |-> r.success,
    error |-> IF r.success THEN ""
              ELSE TextOr(TextOr(r.error, "Failed to add document"),
                          "Failed to add document to knowledge base"),
    calls |-> r.calls, docs |-> r.docs, nextId |-> r.nextId] :
     r \in addDocumentCall(content, NoMap, ProviderResponses(content))}

\* what a handler of the Dashboard hands back to handleSendMessage
Settled(threw, value, issued, table, id, added, content) ==
  [threw |-> threw, value |-> value, calls |-> issued, docs |-> table, nextId |-> id,
   \* whether addKnowledgeDocument was called, and with which content
   added |-> added, content |-> content]

\* handleRAGAgent(input): `add:` stores the rest of the input, anything else
\* is a question to ragAgent
\* (faulty variant: the prefix is compared without toLowerCase)
handleRAGAgentCaseSensitive(input) ==
  IF StartsWith(input, AddCommand)
  THEN LET content == Str(Trim(Substring(input, 4)))
       IN  {Settled(FALSE,
                    IF result.success
                    THEN <<"Document added to knowledge base successfully!">>
                    ELSE <<"Failed to add document: ", result.error>>,
                    result.calls, result.docs, result.nextId, TRUE, content) :
              result \in addKnowledgeDocument(content)}
  ELSE {Settled(f.threw, <<f.value>>, f.calls, docs, nextId, FALSE, "") :
          f \in RagFlow(Str(input), RagPromptHead, RagPromptTail, NoInformation)}
handleRAGAgent(input) ==
  IF StartsWith(ToLowerCase(input), AddCommand)
  THEN LET content == Str(Trim(Substring(input, 4)))
       IN  {Settled(FALSE,
                    IF result.success
                    THEN <<"Document added to knowledge base successfully!">>
                    ELSE <<"Failed to add document: ", result.error>>,
                    result.calls, result.docs, result.nextId, TRUE, content) :
              result \in addKnowledgeDocument(content)}
  ELSE {Settled(f.threw, <<f.value>>, f.calls, docs, nextId, FALSE, "") :
          f \in RagFlow(Str(input), RagPromptHead, RagPromptTail, NoInformation)}

----------------------------------------------------------------------------
(* The Dashboard: agent selection and handleSendMessage *)

\* sends in one behaviour
MaxSends == 2

\* the ids of the agents list
AgentIds == {"ai", "prompt", "rag", "workflow", "tool"}

\* what the user submits: ChatUI hands over input.trim(), and nothing when
\* that is empty
TypedTexts(agent) ==
  IF agent = "rag"
  THEN {<<"a">>, AddCommand, <<"A", "D", "D", ":", " ", "b">>}
  ELSE {<<"a">>}

\* handlePromptAgent, handleWorkflowAgent, handleToolAgent: each resolves
\* with a text or throws an error, whose message may be empty
OtherHandlers ==
  {Settled(FALSE, <<"done">>, <<>>, docs, nextId, FALSE, ""),
   Settled(TRUE, <<"failed">>, <<>>, docs, nextId, FALSE, ""),
   Settled(TRUE, <<"">>, <<>>, docs, nextId, FALSE, "")}

\* the switch on selectedAgent (every selectable id has a case)
Handler(agent, input) ==
  CASE agent = "ai" ->
         {Settled(r.threw, <<r.value>>, r.calls, docs, nextId, FALSE, "") :
            r \in aiAgent(Str(input))}
    [] agent = "rag" -> handleRAGAgent(input)
    [] OTHER -> OtherHandlers

\* the messages of the selected agent's session
getCurrentSession ==
  IF selectedAgent \in DOMAIN sessions THEN sessions[selectedAgent] ELSE <<>>

\* setSessions(prev => ({...prev, [agentId]: {agentId, messages}}))
updateSession(agentId, messages) ==
  [a \in DOMAIN sessions \cup {agentId} |->
     IF a = agentId THEN messages ELSE sessions[a]]

\* the user messages in all sessions
Sends ==
  Cardinality({<<a, i>> \in (DOMAIN sessions) \X (1..(2 * MaxSends)) :
                 i <= Len(sessions[a]) /\ sessions[a][i].role = "user"})

\* `Error: ${error.message || 'Something went wrong'}`
ErrorReply(message) == <<"Error: ", TextOr(message, "Something went wrong")>>

\* isLoading once handleSendMessage is through: the finally block clears it
\* (faulty variant: cleared at the end of the try block only)
LoadingAfterTryOnly(threw) == threw
LoadingAfter(threw) == FALSE

\* the session the continuation of handleSendMessage writes to: the
\* selectedAgent of its closure, the agent selected when the send began
\* (faulty variant: the agent selected now)
SessionToUpdateSelected(closure) == selectedAgent
SessionToUpdate(closure) == closure.agent

\* ChatUI's handleSubmit returns at once while isLoading is set
\* (faulty variant: it submits all the same)
CanSubmitAlways == TRUE
CanSubmit == ~isLoading

\* AgentCard's onSelect
selectAgent ==
  /\ \E a \in AgentIds \ {selectedAgent} : selectedAgent' = a
  /\ UNCHANGED <<docs, nextId, last, calls, bulk, clientVars, sessions, isLoading, send, flowVars>>

\* ChatUI submits (not while loading) and handleSendMessage runs up to the
\* await of the agent's handler; the closure keeps selectedAgent and session
handleSendMessage ==
  /\ CanSubmit
  /\ Sends < MaxSends
  /\ \E input \in TypedTexts(selectedAgent) :
       LET session == getCurrentSession
       IN  /\ sessions' = updateSession(selectedAgent, Append(session, Message("user", input)))
           /\ send' = send \cup {[agent |-> selectedAgent, messages |-> session,
                                   input |-> input]}
           /\ last' = [op |-> "handleSendMessage", returned |-> FALSE, success |-> FALSE,
                       agent |-> selectedAgent, input |-> input, before |-> session]
  /\ isLoading' = TRUE
  /\ calls' = <<>>
  /\ UNCHANGED <<docs, nextId, bulk, clientVars, selectedAgent, flowVars>>

\* the handler resolves or throws; handleSendMessage appends the reply and
\* clears the loading flag
handlerSettles ==
  /\ \E closure \in send : \E h \in Handler(closure.agent, closure.input) :
       LET reply == IF h.threw THEN ErrorReply(h.value[1]) ELSE h.value
       IN  /\ sessions' = updateSession(SessionToUpdate(closure),
                            closure.messages \o <<Message("user", closure.input),
                                                  Message("assistant", reply)>>)
           /\ send' = send \ {closure}
           /\ docs' = h.docs
           /\ nextId' = h.nextId
           /\ calls' = h.calls
           /\ last' = [op |-> "handleSendMessage", returned |-> TRUE, success |-> ~h.threw,
                       agent |-> closure.agent, input |-> closure.input,
                       before |-> closure.messages,
                       threw |-> h.threw, value |-> h.value,
                       added |-> h.added, content |-> h.content, docsBefore |-> docs]
           /\ isLoading' = LoadingAfter(h.threw)
  /\ UNCHANGED <<bulk, clientVars, selectedAgent, flowVars>>

DashNext ==
  \/ selectAgent
  \/ handleSendMessage
  \/ handlerSettles

\* a handler that was awaited settles in the end
SpecDashboard == Init /\ [][DashNext]_vars /\ WF_vars(handlerSettles)

----------------------------------------------------------------------------
(* promptAgent and the registry of prompt templates *)

\* template names a caller passes: two of the registry, one that is in it
\* only once createCustomPrompt has added it
TemplateNames == {"summarize", "translate", "poem"}

\* a Record<string, string>
NoVariables == [k \in {} |-> ""]
VariableMaps ==
  {NoVariables, [text |-> "hello"], [language |-> "French"],
   [text |-> "hello", language |-> "French"], [topic |-> "rain"]}

\* arguments of createCustomPrompt
CustomPrompts ==
  {PromptTemplate("poem", <<"Write a poem about ", Placeholder("topic"), ".">>,
                  <<"topic">>),
   PromptTemplate("summarize", <<"Sum up ", Placeholder("text"), " in ",
                                 Placeholder("language"), ".">>,
                  <<"text", "language">>)}

\* formattedPrompt.replace(regex, value) with the flag g: every occurrence
ReplaceAll(formatted, token, value) ==
  [k \in 1..Len(formatted) |-> IF formatted[k] = token THEN value ELSE formatted[k]]

RECURSIVE Substitute(_, _, _, _)
\* template.variables.forEach from the i-th declared variable on: a variable
\* not in the map throws, any other is substituted
Substitute(formatted, declared, variables, i) ==
  IF i > Len(declared)
  THEN [threw |-> FALSE, value |-> formatted, formatted |-> formatted]
  ELSE IF declared[i] \notin DOMAIN variables
  THEN [threw |-> TRUE, value |-> "Missing variable: " \o declared[i],
        formatted |-> formatted]
  ELSE Substitute(ReplaceAll(formatted, Placeholder(declared[i]), variables[declared[i]]),
                  declared, variables, i + 1)

\* formatPrompt(templateName, variables): the prompt or the error thrown, and
\* the registry it leaves; the substitutions are made in a local string
\* (faulty variant: they are made in the template of the registry)
formatPromptInPlace(templateName, variables) ==
  IF templateName \notin DOMAIN promptTemplates
  THEN [threw |-> TRUE, value |-> "Template \"" \o templateName \o "\" not found",
        registry |-> promptTemplates]
  ELSE LET template == promptTemplates[templateName]
           r == Substitute(template.template, template.variables, variables, 1)
       IN  [threw |-> r.threw, value |-> r.value,
            registry |-> [promptTemplates EXCEPT ![templateName].template = r.formatted]]
formatPrompt(templateName, variables) ==
  IF templateName \notin DOMAIN promptTemplates
  THEN [threw |-> TRUE, value |-> "Template \"" \o templateName \o "\" not found",
        registry |-> promptTemplates]
  ELSE LET template == promptTemplates[templateName]
           r == Substitute(template.template, template.variables, variables, 1)
       IN  [threw |-> r.threw, value |-> r.value, registry |-> promptTemplates]

PromptSystemPrompt ==
  "You are a helpful assistant specialized in the requested task. Provide high-quality, detailed responses."

\* promptAgent(templateName, variables): every way it can end
promptAgentCall(templateName, variables) ==
  LET f == formatPrompt(templateName, variables)
  IN  IF f.threw
      THEN {[threw |-> TRUE, value |-> f.value, calls |-> <<>>, registry |-> f.registry]}
      ELSE {[threw |-> g.threw, value |-> g.value, calls |-> g.calls,
             registry |-> f.registry] :
              g \in aiAgentWithSystemPrompt(<<PromptSystemPrompt>>, f.value)}

promptAgent ==
  /\ \E templateName \in TemplateNames, variables \in VariableMaps :
       \E r \in promptAgentCall(templateName, variables) :
         /\ calls' = r.calls
         /\ promptTemplates' = r.registry
         /\ last' = [op |-> "promptAgent", templateName |-> templateName,
                     variables |-> variables, success |-> ~r.threw, threw |-> r.threw,
                     value |-> r.value, before |-> promptTemplates]
  /\ UNCHANGED <<docs, nextId, bulk, stream, dashVars, flowVars>>

createCustomPrompt ==
  /\ \E custom \in CustomPrompts :
       /\ promptTemplates' =
            [n \in DOMAIN promptTemplates \cup {custom.name} |->
               IF n = custom.name THEN custom ELSE promptTemplates[n]]
       /\ last' = [op |-> "createCustomPrompt", name |-> custom.name, success |-> TRUE]
  /\ calls' = <<>>
  /\ UNCHANGED <<docs, nextId, bulk, stream, dashVars, flowVars>>

----------------------------------------------------------------------------
(* The provider clients, each as an operation of its own *)

\* messages of a provider error: error.message may be empty
ProviderMessages == {"", "unavailable"}

embed ==
  /\ \E text \in Contents :
       \E response \in ProviderResponses(text) :
         LET e == createEmbedding(text, response)
         IN  last' = [op |-> "createEmbedding", text |-> text, success |-> ~e.threw,
                      threw |-> e.threw, value |-> e.value, error |-> e.error]
             /\ calls' = <<EmbedCall(text)>>
  /\ UNCHANGED <<docs, nextId, bulk, clientVars, dashVars, flowVars>>

chat ==
  /\ \E text \in Contents :
       LET messages == <<Message("user", <<text>>)>>
       IN  \E response \in ChatResponses(ProviderMessages) :
             /\ last' = [op |-> "createChatCompletion", success |-> ChatResult(response).success,
                         response |-> response, result |-> ChatResult(response)]
             /\ calls' = <<ChatCall(messages)>>
  /\ UNCHANGED <<docs, nextId, bulk, clientVars, dashVars, flowVars>>

ClientNext ==
  \/ promptAgent
  \/ createCustomPrompt
  \/ embed
  \/ chat

SpecClient == Init /\ [][ClientNext]_vars

----------------------------------------------------------------------------
(* streamChatCompletion and aiAgentStream *)

\* fragments the provider sends in one stream
MaxFragments == 3

\* chunk.choices[0]?.delta?.content || '': a chunk without content counts
\* as the empty fragment
Fragments == {"", "He", "llo"}

\* who called streamChatCompletion: a caller of its own, or aiAgentStream
StreamCallers == {"streamChatCompletion", "aiAgentStream"}

\* `if (content)`: the fragment is appended and handed to onChunk
\* (faulty variant: every fragment is handed to onChunk)
DeliveredAlways(content) == TRUE
Delivered(content) == content # ""

\* what streamChatCompletion resolves to
StreamDone(fullResponse) == [success |-> TRUE, data |-> fullResponse, error |-> ""]
StreamFailed(msg) ==
  [success |-> FALSE, data |-> "", error |-> MessageOr(msg, "Failed to stream response")]

\* aiAgentStream awaits streamChatCompletion and drops what it resolves to:
\* it resolves to undefined; its catch block rethrows what is thrown
aiAgentStream(result) == [threw |-> FALSE, value |-> "undefined"]

\* the record of a returned call, for either caller
StreamReturned(result) ==
  IF stream.caller = "aiAgentStream"
  THEN [op |-> "aiAgentStream", returned |-> TRUE,
        success |-> ~aiAgentStream(result).threw,
        threw |-> aiAgentStream(result).threw, value |-> aiAgentStream(result).value,
        result |-> result]
  ELSE [op |-> "streamChatCompletion", returned |-> TRUE, success |-> result.success,
        threw |-> FALSE, value |-> result, result |-> result]

\* the call, up to the first chunk awaited
streamStarts ==
  /\ stream.pc # "streaming"
  /\ \E caller \in StreamCallers, text \in Contents :
       /\ stream' = [pc |-> "streaming", caller |-> caller, consumed |-> <<>>,
                     chunks |-> <<>>, fullResponse |-> ""]
       /\ last' = [op |-> caller, returned |-> FALSE, success |-> FALSE]
       /\ calls' = <<ChatCall(<<Message("system", <<AiSystemPrompt>>),
                               Message("user", <<text>>)>>)>>
  /\ UNCHANGED <<docs, nextId, bulk, promptTemplates, dashVars, flowVars>>

\* one turn of the for-await loop
streamChunk ==
  /\ stream.pc = "streaming"
  /\ Len(stream.consumed) < MaxFragments
  /\ \E content \in Fragments :
       stream' = [stream EXCEPT
                    !.consumed = Append(@, content),
                    !.fullResponse = IF Delivered(content) THEN @ \o content ELSE @,
                    !.chunks = IF Delivered(content) THEN Append(@, content) ELSE @]
  /\ UNCHANGED <<docs, nextId, last, calls, bulk, promptTemplates, dashVars, flowVars>>

\* the stream ends: {success: true, data: fullResponse}
streamEnds ==
  /\ stream.pc = "streaming"
  /\ stream' = [stream EXCEPT !.pc = "resolved"]
  /\ last' = StreamReturned(StreamDone(stream.fullResponse))
  /\ UNCHANGED <<docs, nextId, calls, bulk, promptTemplates, dashVars, flowVars>>

\* the create call or the stream fails: the catch block returns the failure
streamFails ==
  /\ stream.pc = "streaming"
  /\ \E msg \in ProviderMessages :
       last' = StreamReturned(StreamFailed(msg))
  /\ stream' = [stream EXCEPT !.pc = "resolved"]
  /\ UNCHANGED <<docs, nextId, calls, bulk, promptTemplates, dashVars, flowVars>>

StreamNext ==
  \/ streamStarts
  \/ streamChunk
  \/ streamEnds
  \/ streamFails

SpecStream == Init /\ [][StreamNext]_vars

----------------------------------------------------------------------------
(* The generic table helpers: insertDocument, updateDocument *)

\* rows a workflow table holds in one behaviour
MaxRows == 2

\* messages carried by an error of the store (may be empty)
StoreErrors == {"", "denied"}

\* insertDocument(table, data): .from(table).insert(data).select().single();
\* what it returns, with the tables it leaves
insertDocumentCall(table, data) ==
  LET out(success, row, error, rows, id, side) ==
        [success |-> success, data |-> row, error |-> error,
         docs |-> rows, nextId |-> id, tables |-> side]
      \* the columns declared NOT NULL without a default
      Required ==
        CASE table = "documents" -> {"content"}
          [] table = "workflow_logs" -> {"action"}
          [] table = "notifications" -> {"title", "body"}
          [] table = "emails" -> {"to", "subject", "body"}
          [] OTHER -> {}
      \* the row the documents table makes of the record: id generated,
      \* metadata defaulting to '{}', embedding (no default) to NULL, <<>>
      DocumentRow ==
        [id |-> nextId, content |-> data.content,
         embedding |-> IF "embedding" \in DOMAIN data THEN data.embedding ELSE <<>>,
         metadata |-> IF "metadata" \in DOMAIN data THEN data.metadata ELSE Map({})]
  IN
  {out(FALSE, <<>>, MessageOr(msg, "Failed to insert document"), docs, nextId, tables) :
     msg \in StoreErrors}
  \cup
  (IF Required \subseteq DOMAIN data
   THEN IF table = "documents"
        THEN IF nextId <= MaxDocs
             THEN {out(TRUE, DocumentRow, "", docs \cup {DocumentRow}, nextId + 1, tables)}
             ELSE {}
        ELSE IF table \in DOMAIN tables /\ Len(tables[table]) < MaxRows
             THEN {out(TRUE, data, "", docs, nextId,
                       [tables EXCEPT ![table] = Append(@, data)])}
             ELSE {}
   ELSE {})

\* updateDocument(table, id, updates):
\* .from(table).update(updates).eq('id', id).select().single()
\* (the rows of a workflow table are identified by their position)
updateDocumentCall(table, id, updates) ==
  LET out(success, row, error, rows, side) ==
        [success |-> success, data |-> row, error |-> error,
         docs |-> rows, nextId |-> nextId, tables |-> side]
      \* the store's error when .single() finds no row
      NoRowFound == out(FALSE, <<>>, "no rows returned", docs, tables)
      \* UPDATE ... SET the columns of updates: the others keep their values
      UpdatedRow(row) ==
        [k \in DOMAIN row |-> IF k \in DOMAIN updates THEN updates[k] ELSE row[k]]
  IN
  {out(FALSE, <<>>, MessageOr(msg, "Failed to update document"), docs, tables) :
     msg \in StoreErrors}
  \cup
  (IF table = "documents"
   THEN IF \E d \in docs : d.id = id
        THEN LET d == CHOOSE d \in docs : d.id = id
             IN  {out(TRUE, UpdatedRow(d), "", (docs \ {d}) \cup {UpdatedRow(d)}, tables)}
        ELSE {NoRowFound}
   ELSE IF table \in DOMAIN tables /\ id \in 1..Len(tables[table])
        THEN {out(TRUE, UpdatedRow(tables[table][id]), "", docs,
                  [tables EXCEPT ![table][id] = UpdatedRow(@)])}
        ELSE {NoRowFound})

\* the records the helpers are called with
RecordArgs == {[content |-> "b"], [action |-> "log", message |-> "b"]}

insertDocument ==
  /\ bulk.pc = "idle"
  /\ \E table \in {"documents", "workflow_logs"}, data \in RecordArgs :
       \E r \in insertDocumentCall(table, data) :
         /\ docs' = r.docs /\ nextId' = r.nextId /\ tables' = r.tables
         /\ last' = [op |-> "insertDocument", table |-> table, record |-> data,
                     success |-> r.success, data |-> r.data, error |-> r.error,
                     before |-> docs]
  /\ calls' = <<>>
  /\ UNCHANGED <<bulk, clientVars, dashVars, flow>>

updateDocument ==
  /\ bulk.pc = "idle"
  /\ \E table \in {"documents", "workflow_logs"}, id \in 1..MaxDocs, updates \in RecordArgs :
       \E r \in updateDocumentCall(table, id, updates) :
         /\ docs' = r.docs /\ nextId' = r.nextId /\ tables' = r.tables
         /\ last' = [op |-> "updateDocument", table |-> table, id |-> id,
                     record |-> updates, success |-> r.success, data |-> r.data,
                     error |-> r.error, before |-> docs]
  /\ calls' = <<>>
  /\ UNCHANGED <<bulk, clientVars, dashVars, flow>>

----------------------------------------------------------------------------
(* workflowAgent *)

\* a field of a payload that the caller left out (also: the empty string;
\* for an id: 0)
Absent == ""

\* a WorkflowAction
Action(type, payload) == [type |-> type, payload |-> payload]

\* nothing written
Untouched == [docs |-> docs, nextId |-> nextId, tables |-> tables]

\* workflowAgent(action): what it resolves with, and the tables it leaves.
\* Every handler catches what it throws, so the catch block of workflowAgent
\* itself is never entered
workflowAgentCall(action) ==
  LET payload == action.payload
      ActionResult(success, message, r) ==
        [success |-> success, message |-> message,
         docs |-> r.docs, nextId |-> r.nextId, tables |-> r.tables]
      \* a handler's catch block: success false, `error.message || fallback`
      Caught(msg, fallback) == ActionResult(FALSE, <<MessageOr(msg, fallback)>>, Untouched)
      handleDatabaseAction ==
        LET fallback == "Database operation failed" IN
        IF payload.table = Absent
        THEN {Caught("Table name is required for database operations", fallback)}
        ELSE CASE payload.operation = "insert" ->
                    {IF r.success
                     THEN ActionResult(TRUE, <<"Successfully inserted document into ",
                                               payload.table>>, r)
                     ELSE Caught(r.error, fallback) :
                       r \in insertDocumentCall(payload.table, payload.data)}
               [] payload.operation = "update" ->
                    IF payload.id = 0
                    THEN {Caught("Document ID is required for update operations", fallback)}
                    ELSE {IF r.success
                          THEN ActionResult(TRUE, <<"Successfully updated document in ",
                                                    payload.table>>, r)
                          ELSE Caught(r.error, fallback) :
                            r \in updateDocumentCall(payload.table, payload.id, payload.data)}
               [] OTHER ->
                    {ActionResult(FALSE, <<"Unsupported database operation: ",
                                           payload.operation>>, Untouched)}
      \* the result of the insert is not looked at
      handleNotificationAction ==
        IF payload.title = Absent \/ payload.body = Absent
        THEN {Caught("Title and body are required for notifications",
                     "Failed to send notification")}
        ELSE {ActionResult(TRUE, <<"Notification sent successfully">>, r) :
                r \in insertDocumentCall("notifications",
                        [title |-> payload.title, body |-> payload.body, read |-> FALSE])}
      \* the result of the insert is not looked at
      handleEmailAction ==
        IF payload.to = Absent \/ payload.subject = Absent \/ payload.body = Absent
        THEN {Caught("To, subject, and body are required for emails",
                     "Failed to send email")}
        ELSE {ActionResult(TRUE, <<"Email queued for sending to ", payload.to>>, r) :
                r \in insertDocumentCall("emails",
                        [to |-> payload.to, subject |-> payload.subject,
                         body |-> payload.body, sent |-> TRUE])}
      \* fetch resolves with a response that is ok or not, or rejects
      handleWebhookAction ==
        IF payload.url = Absent
        THEN {Caught("URL is required for webhook calls", "Failed to call webhook")}
        ELSE {ActionResult(TRUE, <<"Webhook called successfully">>, Untouched),
              ActionResult(FALSE, <<"Webhook failed with status ", "500">>, Untouched)}
             \cup {Caught(msg, "Failed to call webhook") : msg \in StoreErrors}
  IN
  CASE action.type = "database" -> handleDatabaseAction
    [] action.type = "notification" -> handleNotificationAction
    [] action.type = "email" -> handleEmailAction
    [] action.type = "webhook" -> handleWebhookAction
    [] OTHER -> {ActionResult(FALSE, <<"Unknown action type: ", action.type>>, Untouched)}

\* workflowAgent, called with a database action
workflowAgent ==
  /\ bulk.pc = "idle"
  /\ \E operation \in {"insert", "update", "delete"}, table \in {"documents", "workflow_logs", Absent},
        data \in RecordArgs, id \in {0, 1} :
       \E result \in workflowAgentCall(Action("database",
                       [operation |-> operation, table |-> table, data |-> data, id |-> id])) :
         /\ docs' = result.docs /\ nextId' = result.nextId /\ tables' = result.tables
         /\ last' = [op |-> "workflowAgent",
                     action |-> Action("database",
                       [operation |-> operation, table |-> table, data |-> data, id |-> id]),
                     success |-> result.success, message |-> result.message,
                     before |-> docs, rowsBefore |-> tables]
  /\ calls' = <<>>
  /\ UNCHANGED <<bulk, clientVars, dashVars, flow>>

\* the operations that write to the tables
WritersNext ==
  \/ addDocument
  \/ deleteDocument
  \/ bulkAddDocuments
  \/ embeddingResolves
  \/ embeddingRejects
  \/ bulkInsert
  \/ insertDocument
  \/ updateDocument
  \/ workflowAgent

SpecWriters == Init /\ [][WritersNext]_vars

----------------------------------------------------------------------------
(* createWorkflow, scheduleWorkflow *)

\* runs the timer starts in one behaviour
MaxRuns == 2

\* the action lists createWorkflow is called with
Workflows ==
  LET notification == Action("notification", [title |-> "t", body |-> "b"])
      untitled == Action("notification", [title |-> "t", body |-> Absent])
      email == Action("email", [to |-> "u", subject |-> "s", body |-> "b"])
      webhook == Action("webhook", [url |-> "u"])
      log == Action("database",
                    [operation |-> "insert", table |-> "workflow_logs",
                     data |-> [action |-> "log", message |-> "b"], id |-> 0])
  IN  {<<>>,
       <<notification, email>>,
       <<webhook, untitled, email>>,
       <<log, webhook>>,
       <<email, Action("sms", [to |-> "u"]), notification>>}

\* `if (!result.success) break`
\* (faulty variant: the loop goes on after a failed action)
GoesOnAlways(result) == TRUE
GoesOn(result) == result.success

\* setInterval(workflow, intervalMs)
scheduleWorkflow ==
  /\ ~flow.timer
  /\ \E actions \in Workflows :
       flow' = [timer |-> TRUE, actions |-> actions, runs |-> <<>>]
  /\ UNCHANGED <<docs, nextId, last, calls, bulk, clientVars, dashVars, tables>>

\* the interval elapses: the timer calls the workflow function, which runs
\* up to its first await. A run: the indexes of the actions whose
\* workflowAgent call it has started, the results it has got, in the order
\* of time, and whether it has ended
timerFires ==
  /\ flow.timer
  /\ Len(flow.runs) < MaxRuns
  /\ flow' = [flow EXCEPT !.runs =
                Append(@, IF flow.actions = <<>>
                          THEN [started |-> <<>>, resolved |-> <<>>, done |-> TRUE]
                          ELSE [started |-> <<1>>, resolved |-> <<>>, done |-> FALSE])]
  /\ UNCHANGED <<docs, nextId, last, calls, bulk, clientVars, dashVars, tables>>

\* the workflowAgent call a run awaits resolves: the loop breaks, or goes on
\* to the next action, or ends
actionResolves ==
  /\ \E r \in 1..Len(flow.runs) :
       LET run == flow.runs[r]
           i == run.started[Len(run.started)]
       IN
       /\ ~run.done
       /\ \E result \in workflowAgentCall(flow.actions[i]) :
            LET got == Append(run.resolved, [index |-> i, success |-> result.success])
            IN
            /\ docs' = result.docs /\ nextId' = result.nextId /\ tables' = result.tables
            /\ last' = [op |-> "workflowAgent", action |-> flow.actions[i],
                        success |-> result.success, message |-> result.message,
                        before |-> docs, rowsBefore |-> tables]
            /\ flow' = [flow EXCEPT !.runs[r] =
                          IF GoesOn(result) /\ i < Len(flow.actions)
                          THEN [started |-> Append(run.started, i + 1), resolved |-> got,
                                done |-> FALSE]
                          ELSE [started |-> run.started, resolved |-> got, done |-> TRUE]]
  /\ calls' = <<>>
  /\ UNCHANGED <<bulk, clientVars, dashVars>>

WorkflowNext ==
  \/ scheduleWorkflow
  \/ timerFires
  \/ actionResolves

SpecWorkflow == Init /\ [][WorkflowNext]_vars

----------------------------------------------------------------------------
(* The Dashboard's handlePromptAgent, handleWorkflowAgent, handleToolAgent *)

\* \d
Digits == {"0", "1", "2", "3", "4", "5", "6", "7", "8", "9"}
\* \w
WordChars ==
  {Letters.upper[i] : i \in 1..26} \cup {Letters.lower[i] : i \in 1..26}
    \cup Digits \cup {"_"}
\* \s
Spaces == {" ", "\n", "\t"}

\* String.prototype.includes
Includes(s, part) ==
  \E i \in 1..(Len(s) - Len(part) + 1) : SubSeq(s, i, i + Len(part) - 1) = part

RECURSIVE RemoveAll(_, _)
\* s.replace(/w1|w2|.../gi, ''): from left to right, the first alternative
\* that matches at a position is taken out, in any letter case
RemoveAll(s, words) ==
  IF s = <<>> THEN <<>>
  ELSE LET hits == {k \in 1..Len(words) : StartsWith(ToLowerCase(s), words[k])}
       IN  IF hits = {}
           THEN <<Head(s)>> \o RemoveAll(Tail(s), words)
           ELSE LET k == CHOOSE k \in hits : \A j \in hits : k <= j
                IN  RemoveAll(SubSeq(s, Len(words[k]) + 1, Len(s)), words)

\* the number of characters at the head of s that are of the class
LeadingCount(s, class) ==
  CHOOSE n \in 0..Len(s) :
    /\ \A j \in 1..n : s[j] \in class
    /\ n = Len(s) \/ s[n + 1] \notin class

\* the texts typed into the chats: for the Prompt Templates agent the
\* commands of the README with several contents, for the Workflow Automation
\* and External Tools agents the commands of the README, and a plain text
Typed ==
  [ list |->
     <<"l", "i", "s", "t">>,
   summarize |->
     <<"s", "u", "m", "m", "a", "r", "i", "z", "e", ":", " ", "h", "e", "l",
       "l", "o">>,
   summarizeList |->
     <<"s", "u", "m", "m", "a", "r", "i", "z", "e", ":", " ", "m", "y", " ",
       "l", "i", "s", "t">>,
   summarizeLines |->
     <<"s", "u", "m", "m", "a", "r", "i", "z", "e", ":", " ", "a", "\n", "b">>,
   translate |->
     <<"t", "r", "a", "n", "s", "l", "a", "t", "e", ":", " ", "h", "i", " ",
       "t", "o", " ", "F", "r", "e", "n", "c", "h">>,
   translateOnly |->
     <<"t", "r", "a", "n", "s", "l", "a", "t", "e", ":", " ", "h", "i">>,
   brainstorm |->
     <<"b", "r", "a", "i", "n", "s", "t", "o", "r", "m", ":", " ", "r", "a",
       "i", "n">>,
   plain |->
     <<"h", "e", "l", "l", "o">>,
   sendNotification |->
     <<"S", "e", "n", "d", " ", "n", "o", "t", "i", "f", "i", "c", "a", "t",
       "i", "o", "n", ":", " ", "m", "e", "s", "s", "a", "g", "e">>,
   databaseInsert |->
     <<"D", "a", "t", "a", "b", "a", "s", "e", " ", "i", "n", "s", "e", "r",
       "t", ":", " ", "d", "a", "t", "a">>,
   sendEmail |->
     <<"S", "e", "n", "d", " ", "e", "m", "a", "i", "l", " ", "t", "o", " ",
       "u", "s", "e", "r", "@", "e", "m", "a", "i", "l", ".", "c", "o", "m",
       ":", " ", "m", "e", "s", "s", "a", "g", "e">>,
   weather |->
     <<"W", "e", "a", "t", "h", "e", "r", " ", "i", "n", " ", "L", "o", "n",
       "d", "o", "n">>,
   weatherBerlin |->
     <<"W", "e", "a", "t", "h", "e", "r", " ", "i", "n", " ", "B", "e", "r",
       "l", "i", "n">>,
   crypto |->
     <<"B", "T", "C", " ", "c", "r", "y", "p", "t", "o", " ", "p", "r", "i",
       "c", "e">>,
   bitcoin |->
     <<"b", "i", "t", "c", "o", "i", "n", " ", "p", "r", "i", "c", "e">>,
   calculate |->
     <<"C", "a", "l", "c", "u", "l", "a", "t", "e", " ", "1", "5", " ", "*",
       " ", "3", "2", " ", "+", " ", "1", "0">>,
   exchange |->
     <<"E", "x", "c", "h", "a", "n", "g", "e", " ", "r", "a", "t", "e", " ",
       "U", "S", "D", " ", "t", "o", " ", "E", "U", "R">>]

\* what a handler of the Dashboard does: the text it resolves with or the
\* error it throws, the agent call it made (none: <<>>), the provider calls
\* issued, and the tables it leaves
Handled(threw, value, called, issued, r) ==
  [threw |-> threw, value |-> value, called |-> called, calls |-> issued,
   docs |-> r.docs, nextId |-> r.nextId, tables |-> r.tables]

handlePromptAgent(input) ==
  LET lower == ToLowerCase(input)
      ListWord == <<"l", "i", "s", "t">>
      AvailableWord == <<"a", "v", "a", "i", "l", "a", "b", "l", "e">>
      \* Object.keys(promptTemplates): the keys in the order of insertion
      Registered(n) == n \in DOMAIN promptTemplates
      listPromptTemplates ==
        SelectSeq(<<"summarize", "analyze", "translate", "codeReview", "brainstorm",
                    "explain", "poem">>, Registered)
      \* what `.` matches: anything but a line end
      NoLineEnd(s) == \A j \in 1..Len(s) : s[j] # "\n"
      \* input.match(/^(\w+):\s*(.+)$/): \s* takes as many blanks as it can
      \* and gives them back one by one until (.+) finds at least one
      \* character and no line end up to the end of the input
      n == LeadingCount(input, WordChars)
      after == SubSeq(input, n + 2, Len(input))
      Rest(k) == SubSeq(after, k + 1, Len(after))
      fits == {k \in 0..LeadingCount(after, Spaces) : Rest(k) # <<>> /\ NoLineEnd(Rest(k))}
      templateMatch == n >= 1 /\ n < Len(input) /\ input[n + 1] = ":" /\ fits # {}
      templateName == Str(SubSeq(input, 1, n))
      content == Rest(CHOOSE k \in fits : \A j \in fits : j <= k)
      \* content.match(/^(.+?)\s+to\s+(\w+)$/i): the shortest text that is
      \* followed by blanks, "to", blanks and one word up to the end
      Language(i) ==
        LET behind == SubSeq(content, i + 1, Len(content))
            tail == SubSeq(behind, LeadingCount(behind, Spaces) + 3, Len(behind))
        IN  SubSeq(tail, LeadingCount(tail, Spaces) + 1, Len(tail))
      Splits(i) ==
        LET behind == SubSeq(content, i + 1, Len(content))
            a == LeadingCount(behind, Spaces)
            tail == SubSeq(behind, a + 3, Len(behind))
        IN  /\ NoLineEnd(SubSeq(content, 1, i))
            /\ a >= 1 /\ Len(behind) >= a + 2
            /\ ToLowerCase(SubSeq(behind, a + 1, a + 2)) = <<"t", "o">>
            /\ LeadingCount(tail, Spaces) >= 1
            /\ Language(i) # <<>> /\ \A j \in 1..Len(Language(i)) : Language(i)[j] \in WordChars
      splits == {i \in 1..Len(content) : Splits(i)}
      text == SubSeq(content, 1, CHOOSE i \in splits : \A j \in splits : i <= j)
      language == Language(Len(text))
      \* the handler awaits promptAgent: it resolves or throws as that does
      ViaPromptAgent(name, variables) ==
        {Handled(r.threw, <<r.value>>,
                 <<[agent |-> "promptAgent", templateName |-> name, variables |-> variables]>>,
                 r.calls, Untouched) :
           r \in promptAgentCall(name, variables)}
  IN
  IF Includes(lower, ListWord) \/ Includes(lower, AvailableWord)
  THEN {Handled(FALSE, <<"Available prompt templates:\n\n">> \o listPromptTemplates
                       \o <<"\n\nTo use a template, specify:">>, <<>>, <<>>, Untouched)}
  ELSE IF templateMatch
  THEN IF templateName = "translate" /\ splits # {}
       THEN ViaPromptAgent("translate", [text |-> Str(text), language |-> Str(language)])
       ELSE ViaPromptAgent(templateName,
                           [text |-> Str(content), content |-> Str(content),
                            code |-> Str(content), topic |-> Str(content),
                            concept |-> Str(content)])
  ELSE {Handled(FALSE, <<"Please specify a template. Available templates: ">>
                       \o listPromptTemplates, <<>>, <<>>, Untouched)}

handleWorkflowAgent(input) ==
  LET lower == ToLowerCase(input)
      DatabaseWord == <<"d", "a", "t", "a", "b", "a", "s", "e">>
      InsertWord == <<"i", "n", "s", "e", "r", "t">>
      NotificationWord == <<"n", "o", "t", "i", "f", "i", "c", "a", "t", "i",
                            "o", "n">>
      NotifyWord == <<"n", "o", "t", "i", "f", "y">>
      \* the handler awaits workflowAgent and answers with a check mark or a
      \* cross before the message
      ViaWorkflowAgent(action) ==
        {Handled(FALSE, <<IF r.success THEN "(check) " ELSE "(cross) ">> \o r.message,
                 <<[agent |-> "workflowAgent", action |-> action]>>, <<>>, r) :
           r \in workflowAgentCall(action)}
  IN
  IF Includes(lower, DatabaseWord) \/ Includes(lower, InsertWord)
  THEN ViaWorkflowAgent(Action("database",
         [operation |-> "insert", table |-> "workflow_logs",
          data |-> [action |-> "test_insert", message |-> Str(input)], id |-> 0]))
  ELSE IF Includes(lower, NotificationWord) \/ Includes(lower, NotifyWord)
  THEN ViaWorkflowAgent(Action("notification",
         [title |-> "Test Notification", body |-> Str(input)]))
  ELSE {Handled(FALSE, <<"Workflow Agent Commands:">>, <<>>, <<>>, Untouched)}

\* toolAgent(toolName, params): the tool answers, or fails; what a tool
\* fetches or computes is not modelled, "(...)" stands for it
toolAgentCall(toolName, params) ==
  LET ToolOk(data) == [success |-> TRUE, data |-> data, error |-> ""]
      ToolFailed(error) == [success |-> FALSE, data |-> "", error |-> error]
      \* String.prototype.toUpperCase
      UpperChar(c) ==
        IF \E i \in 1..26 : Letters.lower[i] = c
        THEN Letters.upper[CHOOSE i \in 1..26 : Letters.lower[i] = c]
        ELSE c
      \* expression.replace(/[^0-9+\-*/().\s]/g, '')
      Kept(c) == c \in Digits \cup {"+", "-", "*", "/", "(", ")", "."} \/ c \in Spaces
  IN
  CASE toolName = "weather" ->
         IF params.location = <<>>
         THEN {ToolFailed("Location is required")}
         ELSE {ToolOk(Str(params.location)), ToolFailed("Failed to fetch weather data")}
    [] toolName = "crypto" ->
         IF params.symbol = <<>>
         THEN {ToolFailed("Cryptocurrency symbol is required")}
         ELSE {ToolOk(Str([i \in 1..Len(params.symbol) |-> UpperChar(params.symbol[i])])),
               ToolFailed("Failed to fetch cryptocurrency price")}
    [] toolName = "calculator" ->
         IF params.expression = <<>>
         THEN {ToolFailed("Invalid mathematical expression")}
         ELSE {ToolOk(Str(SelectSeq(params.expression, Kept))),
               ToolFailed("Invalid mathematical expression")}
    [] toolName \in {"datetime", "exchange"} ->
         {ToolOk("(...)"), ToolFailed("Failed to fetch")}
    [] OTHER -> {ToolFailed("Unknown tool: " \o toolName)}

handleToolAgent(input) ==
  LET lower == ToLowerCase(input)
      WeatherWord == <<"w", "e", "a", "t", "h", "e", "r">>
      InWord == <<"i", "n">>
      ForWord == <<"f", "o", "r">>
      CryptoWord == <<"c", "r", "y", "p", "t", "o">>
      BitcoinWord == <<"b", "i", "t", "c", "o", "i", "n">>
      BtcWord == <<"b", "t", "c">>
      CalculateWord == <<"c", "a", "l", "c", "u", "l", "a", "t", "e">>
      WhatIsWord == <<"w", "h", "a", "t", " ", "i", "s">>
      \* input.match(/\b[A-Z]{3,4}\b/)?.[0] || 'BTC': the leftmost run of
      \* three or four capitals that stands as a word of its own, four
      \* before three
      IsUpper(c) == \E i \in 1..26 : Letters.upper[i] = c
      At(i, k) ==
        /\ i + k - 1 <= Len(input)
        /\ \A j \in i..(i + k - 1) : IsUpper(input[j])
        /\ i = 1 \/ input[i - 1] \notin WordChars
        /\ i + k > Len(input) \/ input[i + k] \notin WordChars
      starts == {i \in 1..Len(input) : At(i, 4) \/ At(i, 3)}
      first == CHOOSE i \in starts : \A j \in starts : i <= j
      symbol ==
        IF starts = {}
        THEN <<"B", "T", "C">>
        ELSE SubSeq(input, first, first + (IF At(first, 4) THEN 4 ELSE 3) - 1)
      \* /[\d+\-*/()]/.test(input)
      HasArithmetic ==
        \E i \in 1..Len(input) : input[i] \in Digits \cup {"+", "-", "*", "/", "(", ")"}
      \* the handler awaits toolAgent and answers with the data or "Error: ..."
      ViaToolAgent(toolName, params, heading) ==
        {Handled(FALSE,
                 IF r.success THEN <<heading, r.data, "(...)">> ELSE <<"Error: ", r.error>>,
                 <<[agent |-> "toolAgent", toolName |-> toolName, params |-> params]>>,
                 <<>>, Untouched) :
           r \in toolAgentCall(toolName, params)}
  IN
  IF Includes(lower, WeatherWord)
  THEN ViaToolAgent("weather",
                    [location |-> Trim(RemoveAll(input, <<WeatherWord, InWord, ForWord>>))],
                    "Weather in ")
  ELSE IF Includes(lower, CryptoWord) \/ Includes(lower, BitcoinWord) \/ Includes(lower, BtcWord)
  THEN ViaToolAgent("crypto", [symbol |-> symbol], "Price: ")
  ELSE IF Includes(lower, CalculateWord) \/ HasArithmetic
  THEN ViaToolAgent("calculator",
                    [expression |->
                       Trim(RemoveAll(input, <<CalculateWord, WhatIsWord, <<"=">> >>))],
                    "= ")
  ELSE {Handled(FALSE,
                <<"Available tools: ", "weather, crypto, calculator, datetime, exchange">>,
                <<>>, <<>>, Untouched)}

\* a handler has settled
Answered(name, input, h) ==
  [op |-> name, input |-> input, threw |-> h.threw, value |-> h.value,
   called |-> h.called, before |-> docs, rowsBefore |-> tables]

\* the Prompt Templates agent answers a typed text
promptHandler ==
  /\ \E input \in {Typed.list, Typed.summarize, Typed.summarizeList, Typed.summarizeLines,
                    Typed.translate, Typed.translateOnly, Typed.brainstorm, Typed.plain} :
       \E h \in handlePromptAgent(input) :
         /\ last' = Answered("handlePromptAgent", input, h)
         /\ calls' = h.calls
  /\ UNCHANGED <<docs, nextId, bulk, clientVars, dashVars, flowVars>>

\* the Workflow Automation agent answers a typed text
workflowHandler ==
  /\ \E input \in {Typed.sendNotification, Typed.databaseInsert, Typed.sendEmail,
                    Typed.plain} :
       \E h \in handleWorkflowAgent(input) :
         /\ last' = Answered("handleWorkflowAgent", input, h)
         /\ calls' = h.calls
         /\ docs' = h.docs /\ nextId' = h.nextId /\ tables' = h.tables
  /\ UNCHANGED <<bulk, clientVars, dashVars, flow>>

\* the External Tools agent answers a typed text
toolHandler ==
  /\ \E input \in {Typed.weather, Typed.weatherBerlin, Typed.crypto, Typed.bitcoin,
                    Typed.calculate, Typed.exchange, Typed.plain} :
       \E h \in handleToolAgent(input) :
         /\ last' = Answered("handleToolAgent", input, h)
         /\ calls' = h.calls
  /\ UNCHANGED <<docs, nextId, bulk, clientVars, dashVars, flowVars>>

HandlersNext ==
  \/ promptHandler
  \/ workflowHandler
  \/ toolHandler

SpecHandlers == Init /\ [][HandlersNext]_vars

----------------------------------------------------------------------------
(* Properties *)

\* the similarity match_documents computes for a row and a query text
Similarity(d, query) == 100 - CosineDistance(d.embedding, Embed(query))

SearchSucceeded == last.op = "searchDocuments" /\ last.success

\* C1: a successful searchDocuments(query, {threshold: t, maxResults: m}), t in
\* [0,1] (0 included) and m positive, returns at most m items, each of
\* similarity strictly above t, in descending order of similarity.
C1_SearchBounded ==
  (/\ SearchSucceeded
   /\ last.options.threshold # Undefined
   /\ last.options.maxResults # Undefined /\ last.options.maxResults > 0)
  => /\ Len(last.data) <= last.options.maxResults
     /\ \A i \in 1..Len(last.data) : last.data[i].similarity > last.options.threshold
     /\ \A i, j \in 1..Len(last.data) :
          i < j => last.data[i].similarity >= last.data[j].similarity

\* a search with threshold 0 and maxResults 1 that had to drop a row above 0
C1_Witness ==
  /\ SearchSucceeded
  /\ last.options = Options(0, 1)
  /\ Len(last.data) = 1
  /\ Cardinality({d \in docs : Similarity(d, last.query) > 0}) >= 2

\* C2 (as claimed): of two successive successful searches of the same query
\* and maxResults over an unchanged table, the one with the higher threshold
\* returns a subset of the ids of the one with the lower threshold (0 included).
C2_Monotonic ==
  [][(/\ SearchSucceeded
      /\ last'.op = "searchDocuments" /\ last'.success
      /\ docs' = docs
      /\ last'.query = last.query
      /\ last'.options.maxResults = last.options.maxResults
      /\ last.options.threshold # Undefined
      /\ last'.options.threshold # Undefined)
     => /\ last.options.threshold < last'.options.threshold
             => Ids(last'.data) \subseteq Ids(last.data)
        /\ last'.options.threshold < last.options.threshold
             => Ids(last.data) \subseteq Ids(last'.data)]_vars

\* a successful searchDocuments(content, {threshold: 0.0, maxResults: 1})
\* directly after a successful addDocument(content)
SearchAfterAdd ==
  /\ SearchSucceeded
  /\ last.afterAdd # 0
  /\ last.options = Options(0, 1)

\* C3 (as claimed): the search after addDocument(content) returns the row just
\* added as its top result, whatever else the table holds.
C3_AddedIsTop ==
  SearchAfterAdd => Len(last.data) >= 1 /\ last.data[1].id = last.afterAdd

\* C3 (amended): the search after addDocument(content) returns exactly one row,
\* of the same similarity as the row just added; it is the row just added
\* when no other row of the table has that similarity to the query.
C3_AddedTiesTop ==
  SearchAfterAdd =>
    LET added == CHOOSE d \in docs : d.id = last.afterAdd
        ties == {d \in docs : Similarity(d, last.query) = Similarity(added, last.query)}
    IN  /\ Len(last.data) = 1
        /\ last.data[1].similarity = Similarity(added, last.query)
        /\ last.data[1].id \in {d.id : d \in ties}
        /\ \A d \in docs : Similarity(d, last.query) <= last.data[1].similarity
        /\ ties = {added} => last.data[1].id = last.afterAdd

\* the search after an add returns the added row although the table holds others
C3_Witness ==
  /\ SearchAfterAdd
  /\ Cardinality(docs) >= 2
  /\ Len(last.data) = 1 /\ last.data[1].id = last.afterAdd


ChatCalls == CallsTo(calls, "chat.completions.create")

\* C4: when the search step of ragAgent / ragAgentWithSources succeeds with
\* zero results, the agent returns its fixed no-information response (with
\* sources = [] in the sources variant) and no generation call is issued.
C4_NoResultsNoGeneration ==
  /\ (last.op = "ragAgent" /\ last.search.success /\ Len(last.search.data) = 0)
       => ~last.threw /\ last.value = NoInformation /\ ChatCalls = {}
  /\ (last.op = "ragAgentWithSources" /\ last.search.success /\ Len(last.search.data) = 0)
       => /\ ~last.threw /\ last.value = NoInformationWithSources
          /\ last.sources = <<>> /\ ChatCalls = {}
  /\ (last.op \in {"ragAgent", "ragAgentWithSources"} /\ last.search.success /\ docs = {})
       => Len(last.search.data) = 0

\* ragAgent found nothing above the threshold in a table that is not empty
C4_Witness ==
  /\ last.op = "ragAgent"
  /\ last.search.success /\ Len(last.search.data) = 0
  /\ docs # {}
  /\ last.value = NoInformation

\* C5: when the search step of ragAgent returns n >= 1 results, exactly one
\* generation call is issued; its system message holds, for i = 1..n in this
\* order, the heading "[Document i]" followed by the content of result i (the
\* results being in descending similarity), and its user message is the query.
C5_OneGroundedGeneration ==
  (last.op = "ragAgent" /\ last.search.success /\ Len(last.search.data) >= 1) =>
    /\ Cardinality(ChatCalls) = 1
    /\ LET results == last.search.data
           n == Len(results)
           messages == calls[CHOOSE i \in ChatCalls : TRUE].messages
           system == messages[1].content
           H(i) == "[Document " \o ToString(i) \o "]"
           At(i) == {p \in 1..Len(system) : system[p] = H(i)}
           Pos(i) == CHOOSE p \in At(i) : TRUE
       IN  /\ Len(messages) = 2
           /\ messages[1].role = "system"
           /\ messages[2] = Message("user", <<last.query>>)
           /\ \A i \in 1..n :
                /\ Cardinality(At(i)) = 1
                /\ Pos(i) + 2 <= Len(system)
                /\ system[Pos(i) + 1] = "\n"
                /\ system[Pos(i) + 2] = results[i].content
           /\ \A i, j \in 1..n : i < j =>
                /\ Pos(i) < Pos(j)
                /\ results[i].similarity >= results[j].similarity

\* ragAgent answered from two results of different content
C5_Witness ==
  /\ last.op = "ragAgent" /\ ~last.threw
  /\ Len(last.search.data) >= 2
  /\ last.search.data[1].content # last.search.data[2].content
  /\ Cardinality(ChatCalls) = 1

BulkReturned == last.op = "bulkAddDocuments" /\ last.returned

InsertCalls == CallsTo(calls, "insert")

\* C6: a successful bulkAddDocuments issues exactly one insert; its i-th
\* record carries the i-th input's content, that content's embedding and the
\* i-th input's metadata (or {}), whatever the order in which the embedding
\* calls settled, and the rows are created in that order.
C6_BulkKeepsInputOrder ==
  (BulkReturned /\ last.success) =>
    /\ Cardinality(InsertCalls) = 1
    /\ LET records == calls[CHOOSE i \in InsertCalls : TRUE].records
           documents == last.documents
           firstId == nextId - Len(documents)
       IN  /\ Len(records) = Len(documents)
           /\ last.count = Len(documents)
           /\ \A i \in 1..Len(documents) :
                /\ records[i].content = documents[i].content
                /\ records[i].embedding = Embed(documents[i].content)
                /\ records[i].metadata =
                     (IF documents[i].metadata.defined THEN documents[i].metadata
                      ELSE Map({}))
                /\ \E d \in docs \ last.before :
                     d.id = firstId + i - 1 /\ d.content = documents[i].content
           /\ Cardinality(docs \ last.before) = Len(documents)

\* a bulk ingest of different documents whose second embedding settled first
C6_Witness ==
  /\ BulkReturned /\ last.success
  /\ Len(last.documents) >= 2
  /\ last.documents[1] # last.documents[2]
  /\ last.order[1] = 2

\* C7: if one of the embedding calls of a bulkAddDocuments call fails, the
\* call returns success = false, no insert is issued and the table is as it
\* was before the call.
C7_BulkAllOrNothing ==
  (BulkReturned /\ last.rejected # 0) =>
    /\ ~last.success
    /\ InsertCalls = {}
    /\ docs = last.before

\* an embedding call failed after another one of the batch had succeeded
C7_Witness ==
  /\ BulkReturned /\ last.rejected # 0
  /\ Len(last.order) >= 1
  /\ ~last.success

\* C8: a search for the content of the row a successful deleteDocument(id)
\* just removed does not return id; and deleteDocument(id) removes no row
\* other than the one with that id.
C8_DeletedNotFound ==
  /\ (SearchSucceeded /\ last.afterDelete # 0) => last.afterDelete \notin Ids(last.data)
  /\ (last.op = "deleteDocument" /\ last.success) =>
       /\ docs \subseteq last.before
       /\ \A d \in last.before \ docs : d.id = last.documentId
       /\ \A d \in docs : d.id # last.documentId

\* the search after the delete still finds another row of the same content
C8_Witness ==
  /\ SearchSucceeded /\ last.afterDelete # 0
  /\ Len(last.data) >= 1
  /\ \A i \in 1..Len(last.data) : last.data[i].content = last.query

RECURSIVE IsSubSequence(_, _)
\* s is t with some items left out
IsSubSequence(s, t) ==
  IF s = <<>> THEN TRUE
  ELSE IF t = <<>> THEN FALSE
  ELSE IF Head(s) = Head(t) THEN IsSubSequence(Tail(s), Tail(t))
  ELSE IsSubSequence(s, Tail(t))

\* structural (deep) equality of two JSON values
DeepEquals(a, b) == a = b

\* metadata holds every key of filters with a structurally equal value
DeepContains(metadata, filters) ==
  \A p \in filters.kv : HasKey(metadata, p[1]) /\ DeepEquals(Get(metadata, p[1]), p[2])

\* C9: the result of hybridSearch(q, f) is a sub-sequence of a result of
\* searchDocuments(q, {threshold: 0.6, maxResults: 10}) on the same table, and
\* the metadata of every item returned holds every key of f with f's value.
C9_HybridSubSequence ==
  (last.op = "hybridSearch") =>
    /\ last.search.success =>
         /\ IsSubSequence(last.results, last.search.data)
         /\ \E r \in searchDocuments(docs, last.query, Options(60, 10)) :
              r.success /\ r.data = last.search.data
         /\ \A i \in 1..Len(last.search.data) : last.search.data[i].similarity > 60
    /\ ~last.search.success => last.results = <<>>
    /\ last.filters.defined =>
         \A i \in 1..Len(last.results) :
           /\ last.results[i].metadata.defined
           /\ DeepContains(last.results[i].metadata, last.filters)

\* a filter that kept some candidates and dropped others
C9_Witness ==
  /\ last.op = "hybridSearch" /\ last.search.success
  /\ last.filters = TagX
  /\ Len(last.results) >= 1
  /\ Len(last.results) < Len(last.search.data)

\* C10 (as claimed): hybridSearch returns every candidate whose metadata
\* holds every key/value pair of the filter map under deep equality, and
\* every candidate when the filter map is empty.
C10_DeepEqualityFilter ==
  (last.op = "hybridSearch" /\ last.search.success /\ last.filters.defined) =>
    \A i \in 1..Len(last.search.data) :
      DeepContains(last.search.data[i].metadata, last.filters)
        => last.search.data[i] \in Range(last.results)

----------------------------------------------------------------------------
(* Error handling *)

\* C11 (as claimed): an add with empty content is rejected as invalid input:
\* it fails without any embedding call or store insert and leaves the table
\* as it was; here through the Dashboard command `add:` with nothing after
\* the prefix.
C11_EmptyContentRejected ==
  (/\ last.op = "handleSendMessage" /\ last.returned
   /\ last.added /\ last.content = "")
    => /\ calls = <<>>
       /\ docs = last.docsBefore
       /\ last.value[1] = "Failed to add document: "

\* the variables a template declares that a map of variables lacks
Lacking(template, variables) ==
  {template.variables[i] : i \in 1..Len(template.variables)} \ DOMAIN variables

\* C12: promptAgent called with a template name that is not in the registry,
\* or with a map of variables lacking a variable the template declares,
\* throws before any Generation Client call and leaves the registry as it was.
C12_BadPromptThrows ==
  (/\ last.op = "promptAgent"
   /\ \/ last.templateName \notin DOMAIN last.before
      \/ Lacking(last.before[last.templateName], last.variables) # {})
    => /\ last.threw
       /\ calls = <<>>
       /\ promptTemplates = last.before

\* translate with its first declared variable but not its second: the first
\* substitution is made before the second variable is missed
C12_Witness ==
  /\ last.op = "promptAgent" /\ last.threw
  /\ last.templateName = "translate"
  /\ last.variables = [text |-> "hello"]
  /\ last.value = "Missing variable: language"

\* the text addDocument or searchDocuments embeds
EmbeddedText == IF last.op = "addDocument" THEN last.content ELSE last.query

\* the error createEmbedding throws
IsEmbeddingError(error) == \E msg \in ErrorMessages : error = EmbeddingError(msg)

\* C13: when the embedding call fails inside addDocument or searchDocuments,
\* the operation returns success = false with an error message and issues no
\* store call after it; a store call, when there is one, carries the embedding
\* of the text and never a placeholder vector.
C13_EmbeddingFailureStops ==
  (last.op \in {"addDocument", "searchDocuments"}) =>
    /\ calls[1] = EmbedCall(EmbeddedText)
    /\ IsEmbeddingError(last.error) =>
         ~last.success /\ last.error # "" /\ Len(calls) = 1
    /\ Len(calls) = 1 => ~last.success /\ IsEmbeddingError(last.error)
    /\ \A i \in 2..Len(calls) :
         /\ calls[i].svc \in {"rpc", "insert"}
         /\ calls[i].svc = "rpc" => calls[i].query_embedding = Embed(EmbeddedText)
         /\ calls[i].svc = "insert" =>
              \A k \in 1..Len(calls[i].records) :
                calls[i].records[k].embedding = Embed(EmbeddedText)

\* a search on a table that holds documents, stopped by the embedding failure
C13_Witness ==
  /\ last.op = "searchDocuments" /\ ~last.success
  /\ IsEmbeddingError(last.error)
  /\ CallsTo(calls, "rpc") = {}
  /\ docs # {}

\* C14 (as claimed): createEmbedding returns a vector of exactly the
\* dimension of the store's embedding column (1536) or fails: a provider
\* response of another length makes it throw.
C14_EmbeddingHasDimension ==
  (last.op = "createEmbedding" /\ ~last.threw) =>
    Len(last.value) = EmbeddingDimension

RagReturned == last.op \in {"ragAgent", "ragAgentWithSources"}

\* C15: a failure of the search step (embedding or store RPC) or of the
\* Generation Client makes ragAgent / ragAgentWithSources throw, with no
\* answer returned; when the search failed no Generation Client call is made.
C15_RagFailureThrows ==
  RagReturned =>
    /\ ~last.search.success => last.threw /\ ~last.generated /\ ChatCalls = {}
    /\ (last.generated /\ ~last.generation.success) => last.threw
    /\ last.threw =>
         /\ ~last.success
         /\ last.value \in {last.search.error, last.generation.error}
         /\ last.op = "ragAgentWithSources" => last.sources = <<>>

\* the search found documents and the generation call failed
C15_Witness ==
  /\ RagReturned /\ last.threw
  /\ last.search.success /\ Len(last.search.data) >= 1
  /\ last.generated /\ ~last.generation.success
  /\ ChatCalls # {}

\* C16: createChatCompletion never throws for a provider error: it resolves
\* to {success: true, data} or to {success: false, error} with a non-empty
\* error string, never to an object with both.
C16_ChatCompletionTagged ==
  (last.op = "createChatCompletion") =>
    /\ last.result.success = last.response.ok
    /\ last.result.success =>
         "data" \in last.result.keys /\ "error" \notin last.result.keys
    /\ ~last.result.success =>
         /\ "error" \in last.result.keys /\ "data" \notin last.result.keys
         /\ last.result.error # ""

\* a provider error without a message
C16_Witness ==
  /\ last.op = "createChatCompletion"
  /\ last.response = ChatFailed("")
  /\ last.result.error = "Failed to generate response"

----------------------------------------------------------------------------
(* Streaming *)

RECURSIVE NonEmptyOf(_)
\* the non-empty fragments, in order
NonEmptyOf(fragments) ==
  IF fragments = <<>> THEN <<>>
  ELSE (IF Head(fragments) = "" THEN <<>> ELSE <<Head(fragments)>>)
       \o NonEmptyOf(Tail(fragments))

RECURSIVE Concat(_)
Concat(fragments) ==
  IF fragments = <<>> THEN "" ELSE Head(fragments) \o Concat(Tail(fragments))

\* what a step may do to the onChunk invocations of the stream: nothing
\* once the call has resolved, and at most one more while it runs
ChunkStep ==
  /\ (stream.pc = "resolved" /\ stream'.pc = "resolved") =>
       stream'.chunks = stream.chunks
  /\ (stream.pc = "streaming") =>
       \/ stream'.chunks = stream.chunks
       \/ \E content \in Fragments \ {""} :
            /\ stream'.chunks = Append(stream.chunks, content)
            /\ stream'.consumed = Append(stream.consumed, content)

\* C17: streamChatCompletion invokes onChunk once per non-empty fragment, in
\* the order the provider sent them, one at a time and never after the call
\* has resolved; on success data is the in-order concatenation of exactly the
\* fragments passed to onChunk.
C17_ChunksInOrder ==
  /\ [](stream.pc # "idle" =>
          /\ stream.chunks = NonEmptyOf(stream.consumed)
          /\ (stream.pc = "resolved" /\ last.result.success) =>
               last.result.data = Concat(stream.chunks))
  /\ [][ChunkStep]_vars

\* a stream with an empty fragment between two non-empty ones
C17_Witness ==
  /\ stream.pc = "resolved" /\ last.result.success
  /\ stream.consumed = <<"He", "", "llo">>
  /\ stream.chunks = <<"He", "llo">>
  /\ last.result.data = "Hello"

\* C18 (as claimed): hybridSearch does not recover from errors locally: when
\* the embedding or the store RPC fails, what the caller receives differs
\* from what a successful search with zero matches returns.
C18_HybridFailureDistinguishable ==
  (last.op = "hybridSearch" /\ ~last.search.success) => last.results # <<>>

\* C19 (as claimed): when the stream call fails, before or after some
\* fragments, aiAgentStream rejects or otherwise reports the failure instead
\* of resolving as it does for a fully delivered stream.
C19_StreamFailureReachesCaller ==
  (last.op = "aiAgentStream" /\ last.returned /\ ~last.result.success) =>
    last.threw \/ last.value # aiAgentStream(StreamDone("Hello")).value

----------------------------------------------------------------------------
(* The Dashboard *)

\* the assistant message the last send owes: the response, or the error
ExpectedReply ==
  IF last.threw
  THEN <<"Error: ", IF last.value[1] = "" THEN "Something went wrong" ELSE last.value[1]>>
  ELSE last.value

\* the last send is through: the flag is cleared and the session of the agent
\* it was sent to is what it was before, the user's message, one reply
SendFinished ==
  /\ ~isLoading
  /\ last.op = "handleSendMessage" /\ last.returned
  /\ last.agent \in DOMAIN sessions
  /\ sessions[last.agent] =
       last.before \o <<Message("user", last.input), Message("assistant", ExpectedReply)>>

\* C20: every send, whether the agent's handler resolves or throws, finishes
\* in the end with isLoading = false and the session holding the user's
\* message followed by exactly one assistant message (the response, or
\* "Error: <message>"); a failure never leaves isLoading at true.
C20_SendFinishes == isLoading ~> SendFinished

\* a send whose handler threw, finished, while another agent is selected
C20_Witness ==
  /\ SendFinished /\ last.threw
  /\ last.agent = "rag" /\ selectedAgent # "rag"

----------------------------------------------------------------------------
(* The answer of the RAG agents *)

\* C22 (as claimed): when the search step returned at least one result and
\* the generation call succeeds with completion text t, ragAgent returns
\* exactly t, for every t including the empty string (ragAgentWithSources:
\* answer t, sources the search results).
C22_ReturnsCompletionVerbatim ==
  (RagReturned /\ last.generated /\ last.generation.success) =>
    /\ ~last.threw
    /\ last.value = last.generation.data
    /\ last.op = "ragAgentWithSources" => last.sources = last.search.data

----------------------------------------------------------------------------
(* The Knowledge Base agent and the sessions of the Dashboard *)

\* the typed text begins with a, d, d, : in either letter case
IsAddInput(input) ==
  /\ Len(input) >= 4
  /\ input[1] \in {"a", "A"} /\ input[2] \in {"d", "D"}
  /\ input[3] \in {"d", "D"} /\ input[4] = ":"

\* content is what is left of the characters once the blanks at both ends
\* are taken away
IsTrimmed(content, chars) ==
  \E i \in 0..Len(chars), j \in 0..Len(chars) :
    /\ i + j <= Len(chars)
    /\ \A k \in 1..i : chars[k] = " "
    /\ \A k \in (Len(chars) - j + 1)..Len(chars) : chars[k] = " "
    /\ content = Concat(SubSeq(chars, i + 1, Len(chars) - j))
    /\ i + j < Len(chars) => chars[i + 1] # " " /\ chars[Len(chars) - j] # " "

RagSendReturned ==
  last.op = "handleSendMessage" /\ last.returned /\ last.agent = "rag"

\* C25: in the Knowledge Base agent an input that starts with `add:`, in any
\* letter case, causes exactly one ingest of the trimmed remainder and no
\* search or generation call; any other input causes exactly one ragAgent
\* query of the whole input and no ingest, and leaves the table as it was.
C25_AddOrQuery ==
  RagSendReturned =>
    IF IsAddInput(last.input)
    THEN /\ last.added
         /\ IsTrimmed(last.content, SubSeq(last.input, 5, Len(last.input)))
         /\ Cardinality(CallsTo(calls, "embeddings.create")) = 1
         /\ calls[1] = EmbedCall(last.content)
         /\ Cardinality(CallsTo(calls, "insert")) <= 1
         /\ CallsTo(calls, "rpc") = {} /\ ChatCalls = {}
    ELSE /\ ~last.added
         /\ calls[1] = EmbedCall(Concat(last.input))
         /\ Cardinality(CallsTo(calls, "embeddings.create")) = 1
         /\ Cardinality(CallsTo(calls, "rpc")) <= 1
         /\ CallsTo(calls, "insert") = {}
         /\ docs = last.docsBefore

\* an upper-case ADD: with blanks around the content, stored
C25_Witness ==
  /\ RagSendReturned /\ last.added
  /\ last.input = <<"A", "D", "D", ":", " ", "b">>
  /\ last.content = "b"
  /\ \E d \in docs : d.content = "b"

\* the messages of an agent's session
SessionOf(ss, a) == IF a \in DOMAIN ss THEN ss[a] ELSE <<>>

\* a step changes the session of no agent but the one a send in flight was
\* started for
IsolatedStep ==
  \A a \in AgentIds :
    SessionOf(sessions', a) # SessionOf(sessions, a) =>
      \/ \E closure \in send : closure.agent = a
      \/ send = {} /\ a = selectedAgent /\ \E closure \in send' : closure.agent = a

\* C29: sessions are isolated per agent: a send started while agent A is
\* selected appends its user message and its reply to the session of A only,
\* also when another agent is selected while the request is in flight; the
\* sessions of all other agents are left as they were.
C29_SessionsIsolated ==
  /\ [][IsolatedStep]_vars
  /\ [](\A closure \in send :
          SessionOf(sessions, closure.agent) =
            Append(closure.messages, Message("user", closure.input)))

\* a reply written to the session of "ai" while "rag", which has a session of
\* its own, is the selected agent
C29_Witness ==
  /\ SendFinished /\ last.agent = "ai" /\ selectedAgent = "rag"
  /\ SessionOf(sessions, "rag") # <<>>

\* every user message of a session is followed by one assistant message,
\* but for the last one while its send is in flight
Paired(messages, pending) ==
  /\ \A i \in 1..Len(messages) :
       IF i % 2 = 1 THEN messages[i].role = "user" ELSE messages[i].role = "assistant"
  /\ Len(messages) % 2 = IF pending THEN 1 ELSE 0

\* a step leaves every session as it was or appends one message to one
AppendStep ==
  \/ sessions' = sessions
  \/ \E a \in AgentIds :
       /\ Len(SessionOf(sessions', a)) = Len(SessionOf(sessions, a)) + 1
       /\ SubSeq(SessionOf(sessions', a), 1, Len(SessionOf(sessions, a)))
            = SessionOf(sessions, a)
       /\ \A b \in AgentIds \ {a} : SessionOf(sessions', b) = SessionOf(sessions, b)

\* C30: no chat message is lost or duplicated: at most one send is in flight
\* at a time, every session grows by appending only, and each submitted user
\* message appears once, followed by its own reply.
C30_NoMessageLost ==
  /\ [](Cardinality(send) <= 1 /\ (isLoading <=> send # {}))
  /\ [](\A a \in AgentIds :
          Paired(SessionOf(sessions, a), \E closure \in send : closure.agent = a))
  /\ []((send = {} /\ last.op = "handleSendMessage" /\ last.returned) => SendFinished)
  /\ [][AppendStep]_vars

\* two sends to the same agent, both answered
C30_Witness ==
  /\ send = {} /\ ~isLoading
  /\ \E a \in AgentIds : Len(SessionOf(sessions, a)) = 4

----------------------------------------------------------------------------
(* The writers of the documents table, and the workflows *)

\* C21 (as claimed): in every state reachable through the exported
\* operations (addDocument, bulkAddDocuments, deleteDocument, insertDocument,
\* updateDocument, workflowAgent database actions), every record of the
\* documents table has an embedding, the embedding of its current content.
C21_EmbeddingOfContent == \A d \in docs : d.embedding = Embed(d.content)

\* the runs of the registered workflow
Runs == {flow.runs[r] : r \in 1..Len(flow.runs)}

\* C26: a workflow function executes its actions one after another in list
\* order, each action starting only after the previous one has resolved, and
\* starts no action after the first one that resolved with success = false;
\* the run then ends (the function resolves, it never rejects).
C26_OneAfterAnother ==
  \A run \in Runs :
    LET k == Len(run.started) IN
    /\ k <= Len(flow.actions)
    /\ \A j \in 1..k : run.started[j] = j
    /\ Len(run.resolved) = IF run.done THEN k ELSE k - 1
    /\ \A j \in 1..Len(run.resolved) : run.resolved[j].index = j
    /\ \A j \in 2..k : run.resolved[j - 1].success
    /\ run.done /\ k > 0 => k = Len(flow.actions) \/ ~run.resolved[k].success

\* a run that ended at its second action, which failed, with a third one
\* in the list
C26_Witness ==
  \E run \in Runs :
    /\ run.done /\ Len(run.started) = 2 /\ Len(flow.actions) = 3
    /\ run.resolved[1].success /\ ~run.resolved[2].success

\* C27 (as claimed): workflowAgent reports success = true for a notification
\* or an email action only if the record was persisted in its table.
C27_SuccessMeansPersisted ==
  (/\ last.op = "workflowAgent"
   /\ last.action.type \in {"notification", "email"}
   /\ last.success)
    => \E t \in {"notifications", "emails"} :
         Len(tables[t]) = Len(last.rowsBefore[t]) + 1

\* C28 (as claimed): the runs of a workflow registered with scheduleWorkflow
\* never overlap: no run starts while another one has not ended.
C28_RunsNeverOverlap == Cardinality({r \in 1..Len(flow.runs) : ~flow.runs[r].done}) <= 1

----------------------------------------------------------------------------
(* The commands of the README *)

\* the handler a settled Dashboard handler has dispatched to: the type of the
\* workflow action, the name of the tool, "promptAgent", or "none"
Dispatched ==
  IF last.called = <<>> THEN "none"
  ELSE CASE last.called[1].agent = "workflowAgent" -> last.called[1].action.type
         [] last.called[1].agent = "toolAgent" -> last.called[1].toolName
         [] OTHER -> last.called[1].agent

EndsWith(s, suffix) ==
  Len(s) >= Len(suffix) /\ SubSeq(s, Len(s) - Len(suffix) + 1, Len(s)) = suffix

\* the handler the README names for a command form ("any": not a form of
\* the README): "Send notification: ...", "Database insert: ...",
\* "Send email to ...: ...", "Weather in ...", "... crypto price",
\* "Calculate ...", "Exchange rate ... to ..."
ReadmeHandler(op, input) ==
  CASE op = "handleWorkflowAgent" /\ StartsWith(input, SubSeq(Typed.sendNotification, 1, 18))
         -> "notification"
    [] op = "handleWorkflowAgent" /\ StartsWith(input, SubSeq(Typed.databaseInsert, 1, 16))
         -> "database"
    [] op = "handleWorkflowAgent" /\ StartsWith(input, SubSeq(Typed.sendEmail, 1, 14))
         -> "email"
    [] op = "handleToolAgent" /\ StartsWith(input, SubSeq(Typed.weather, 1, 11))
         -> "weather"
    [] op = "handleToolAgent" /\ EndsWith(input, SubSeq(Typed.crypto, 4, 16))
         -> "crypto"
    [] op = "handleToolAgent" /\ StartsWith(input, SubSeq(Typed.calculate, 1, 10))
         -> "calculator"
    [] op = "handleToolAgent" /\ StartsWith(input, SubSeq(Typed.exchange, 1, 14))
         -> "exchange"
    [] OTHER -> "any"

\* C23 (as claimed): every command form the README gives for the Workflow
\* Automation and the External Tools agents is dispatched to the matching
\* handler: the notification, database and email actions of workflowAgent,
\* the weather, crypto, calculator and exchange tools of toolAgent.
C23_ReadmeCommandsDispatched ==
  (last.op \in {"handleWorkflowAgent", "handleToolAgent"}
     /\ ReadmeHandler(last.op, last.input) # "any")
    => Dispatched = ReadmeHandler(last.op, last.input)

\* the position of the first colon of a typed text (0: none)
FirstColon(input) ==
  IF \E i \in 1..Len(input) : input[i] = ":"
  THEN CHOOSE i \in 1..Len(input) : input[i] = ":" /\ \A j \in 1..(i - 1) : input[j] # ":"
  ELSE 0

\* C24 (as claimed): in the Prompt Templates agent every input
\* "<templateName>: <content>" with a registered template and a non-empty
\* content is dispatched to promptAgent with that template, the content bound
\* to the template's variable (for translate: its two parts), whatever the
\* content holds; and only the input "list" is answered with the listing.
C24_TemplateCommandsDispatched ==
  last.op = "handlePromptAgent" =>
    LET colon == FirstColon(last.input)
        name == Str(SubSeq(last.input, 1, colon - 1))
        content == Str(TrimStart(SubSeq(last.input, colon + 1, Len(last.input))))
    IN
    /\ (colon > 0 /\ name \in DOMAIN promptTemplates /\ content # "") =>
         /\ Dispatched = "promptAgent"
         /\ last.called[1].templateName = name
         /\ name # "translate" =>
              last.called[1].variables[promptTemplates[name].variables[1]] = content
    /\ last.value[1] = "Available prompt templates:\n\n" => last.input = Typed.list

====
